---- MODULE Spec2Model ----
(***************************************************************************)
(* BSC Testnet wallet operations: the native transfer (BNBTransfer), the   *)
(* token transfer (TokenTransfer), the confirmation watcher and the        *)
(* one-shot status query (BSCWallet.get_transaction_status), run by one    *)
(* caller (fr) or by two callers at the same time (callers) against a      *)
(* chain RPC collaborator whose calls can fail and whose state moves       *)
(* between the callers' steps.  WalletSpec runs the operations of the      *)
(* wallet generator (mnemonics, derivation, import of a private key), and  *)
(* ConvertSpec the conversion of a token amount to base units and back,   *)
(* BalancesSpec BSCWallet.get_all_balances, and DashSpec the Send BNB page *)
(* of the dashboard (page).  A transaction costs its sender GasCost on top *)
(* of its value.                                                           *)
(*                                                                         *)
(* Units.  Amounts and balances are integers of the smallest unit (wei).   *)
(* A Python float is modelled as an integer that has at most MANT_BITS     *)
(* significant bits (53 in an IEEE double): ToFloat rounds to the nearest  *)
(* such value, ties to even.  Gas prices are counted in gwei.  Time is     *)
(* counted in whole seconds.                                               *)
(***************************************************************************)
EXTENDS Integers, Sequences, FiniteSets, TLC

VARIABLES chain, fr, lastStatus, cls, callers, handler, page

vars == <<chain, fr, lastStatus, cls, callers, handler, page>>

----------------------------------------------------------------------------
(* Bounds of the model *)

MaxWei == 4          \* largest balance / amount
MANT_BITS == 1       \* significant bits of the modelled float
MaxTx == 1           \* transactions the chain accepts in one behaviour
MaxLatency == 3      \* longest receipt lookup, in seconds
MaxTimeout == 3      \* largest timeout passed to a direct wait_for_confirmation
MaxLen == 4          \* longest error text, in words
SendTimeout == 4     \* the timeout send_bnb and send_token wait with (the default, 300 s), scaled
MaxTok == 1          \* largest token amount / raw token balance
TokenUnit == 1       \* decimals() of the token contract
PassedGasPrice == 5  \* a gas price a caller passes to a build, in gwei
MaxEntropy == 1      \* largest entropy generate_mnemonic draws (its high bits are 0)
MaxAccountIndex == 1 \* largest account_index passed to a derivation
AmountBits == 5      \* significant bits of a float that holds a fraction of a token
GasCost == 1         \* the fee of a transaction (gas used x gas price), in balance units
MaxUnits == 31       \* largest numerator of a decimal token amount (every numerator is a float)
MaxDecimals == 2     \* largest decimals() of a token, and most decimal places of an amount
MaxTokens == 2       \* longest token list passed to get_all_balances
MaxSends == 2        \* most calls of send_bnb the dashboard makes in one behaviour

(* Program constants *)

BSC_TESTNET_CHAIN_ID == 97
DEFAULT_GAS_LIMIT == 21000
TOKEN_TRANSFER_GAS_LIMIT == 100000
DEFAULT_GAS_PRICE == 20          \* 20 gwei
POLL_INTERVAL == 2               \* time.sleep(2)
DEFAULT_DECIMALS == 18           \* get_token_info's fallback

----------------------------------------------------------------------------
(* Optional values *)

None == <<>>
Some(x) == <<x>>
IsSome(o) == o # <<>>
Get(o) == o[1]

----------------------------------------------------------------------------
(* Python floats: float(x), and the floats a caller can pass *)

RECURSIVE Pow2(_)
Pow2(k) == IF k = 0 THEN 1 ELSE 2 * Pow2(k - 1)

RECURSIVE FloatExp(_, _)
\* the exponent k of w: the least k with w < 2^(MANT_BITS + k)
FloatExp(w, k) == IF w < Pow2(MANT_BITS + k) THEN k ELSE FloatExp(w, k + 1)

\* float(w): the nearest value with MANT_BITS significant bits, ties to even
ToFloat(w) ==
    LET k == FloatExp(w, 0)
        unit == Pow2(k)
        q == w \div unit
        r == w % unit
    IN IF 2 * r > unit \/ (2 * r = unit /\ q % 2 = 1)
       THEN (q + 1) * unit
       ELSE q * unit

Floats == {ToFloat(w) : w \in 0..MaxWei}

----------------------------------------------------------------------------
(* Error texts of the collaborator: a sequence of words and its letter case *)

Words == {"insufficient", "funds", "nonce", "too", "low", "high", "gas",
          "price", "intrinsic", "connection", "timeout", "reverted"}

Text(ws, caps) == [words |-> ws, caps |-> caps]
NoText == Text(<<>>, FALSE)

\* str.lower()
Lower(t) == [t EXCEPT !.caps = FALSE]

\* phrase in t, for a lower-case literal phrase: a contiguous, case-sensitive match
Contains(t, phrase) ==
    /\ ~t.caps
    /\ \E i \in 0..(Len(t.words) - Len(phrase)) :
          \A j \in 1..Len(phrase) : t.words[i + j] = phrase[j]

(* Exceptions: the Python type, the message by its fixed part (kind), the
   collaborator's text the message embeds, and the values it interpolates *)
Err(type, kind, text, info) ==
    [type |-> type, kind |-> kind, text |-> text, info |-> info]

NoInfo == [x \in {} |-> 0]

\* the exception a failed RPC call raises: the collaborator's own, with its text
RawError(t) == Err("RPCError", "raw", t, NoInfo)

\* a failure of a read call (balance, nonce, contract call)
RpcDown == RawError(Text(<<"connection", "reverted">>, FALSE))

----------------------------------------------------------------------------
(* (faulty variant) the except branch without .lower() *)
ClassifyCaseSensitive(e) ==
    LET error_str == e IN
    IF Contains(error_str, <<"insufficient", "funds">>)
      THEN Err("ValueError", "Insufficient funds", NoText, NoInfo)
    ELSE IF Contains(error_str, <<"nonce", "too", "low">>)
      THEN Err("ValueError", "Nonce too low", NoText, NoInfo)
    ELSE IF Contains(error_str, <<"nonce", "too", "high">>)
      THEN Err("ValueError", "Nonce too high", NoText, NoInfo)
    ELSE IF Contains(error_str, <<"gas", "price", "too", "low">>)
      THEN Err("ValueError", "Gas price too low", NoText, NoInfo)
    ELSE IF Contains(error_str, <<"intrinsic", "gas", "too", "low">>)
      THEN Err("ValueError", "Gas limit too low", NoText, NoInfo)
    ELSE IF Contains(error_str, <<"connection">>) \/ Contains(error_str, <<"timeout">>)
      THEN Err("ConnectionError", "Network connection issue", NoText, NoInfo)
    ELSE Err("ValueError", "Transaction broadcast failed", e, NoInfo)

(* BNBTransfer.broadcast_transaction: the except branch *)

ClassifyBroadcastError(e) ==
    LET error_str == Lower(e) IN
    IF Contains(error_str, <<"insufficient", "funds">>)
      THEN Err("ValueError", "Insufficient funds", NoText, NoInfo)
    ELSE IF Contains(error_str, <<"nonce", "too", "low">>)
      THEN Err("ValueError", "Nonce too low", NoText, NoInfo)
    ELSE IF Contains(error_str, <<"nonce", "too", "high">>)
      THEN Err("ValueError", "Nonce too high", NoText, NoInfo)
    ELSE IF Contains(error_str, <<"gas", "price", "too", "low">>)
      THEN Err("ValueError", "Gas price too low", NoText, NoInfo)
    ELSE IF Contains(error_str, <<"intrinsic", "gas", "too", "low">>)
      THEN Err("ValueError", "Gas limit too low", NoText, NoInfo)
    ELSE IF Contains(error_str, <<"connection">>) \/ Contains(error_str, <<"timeout">>)
      THEN Err("ConnectionError", "Network connection issue", NoText, NoInfo)
    ELSE Err("ValueError", "Transaction broadcast failed", e, NoInfo)

(* TokenTransfer.broadcast_transaction: the except branch logs and re-raises *)
TokenBroadcastError(e) == RawError(e)

----------------------------------------------------------------------------
(* The chain collaborator.  One funded account A (the sender), one recipient
   B and one token contract T.  A transaction hash is a function of the
   signed transaction; TxHash keeps the signed transaction as the digest. *)

Sender == "A"
Sender2 == "C"
Recipient == "B"

\* the accounts whose balance and transaction count the model follows
Accounts == {Sender, Sender2}
TokenContract == "T"

TxHash(signed) == [digest |-> signed]

\* a well-formed hash the chain has never seen
UnknownHash ==
    TxHash([tx |-> [nonce |-> 0, to |-> Recipient, value |-> 0, gas |-> 0,
                    gasPrice |-> 0, chainId |-> 0, data |-> <<>>],
            from |-> "Z"])

\* the receipt of a mined transaction
Receipt(status, gasUsed, blockNumber) ==
    [status |-> status, gasUsed |-> gasUsed, blockNumber |-> blockNumber]

HasReceipt(h) == h \in DOMAIN chain.receipts

\* bal >= m * 10^e, computed without forming 10^e
RECURSIVE GeScaled(_, _, _)
GeScaled(bal, m, e) ==
    IF e = 0 THEN bal >= m ELSE GeScaled(bal \div 10, m, e - 1)

\* what the receipt lookup of the node answers when the call itself succeeds
ReceiptOf(h) == IF HasReceipt(h) THEN Some(chain.receipts[h]) ELSE None

\* the gas price the node reports, in gwei
NodeGasPrice == 10

\* the gas a mined transaction used
GasUsedBy(h) ==
    IF h.digest.tx.data = <<>> THEN DEFAULT_GAS_LIMIT ELSE h.digest.tx.gas \div 2

RECURSIVE Pow10(_)
Pow10(e) == IF e = 0 THEN 1 ELSE 10 * Pow10(e - 1)

\* m * 10^e, formed only where it fits
ScaledValue(m, e) == IF m = 0 THEN 0 ELSE m * Pow10(e)

\* the balances after `value` has moved from one account to another
Transfer(balance, from, to, value) ==
    [a \in DOMAIN balance |->
        balance[a] - (IF a = from THEN value ELSE 0) + (IF a = to THEN value ELSE 0)]

(* A pending transaction of the sender whose nonce is the sender's count is
   included in the next block when the sender's balance covers its value and
   its fee, which the sender pays.  A token transfer succeeds when the sender
   holds the tokens, else it reverts (status 0). *)
ChainMine(h) ==
    /\ h \in chain.mempool
    /\ ~HasReceipt(h)
    /\ h.digest.tx.nonce = chain.txCount[h.digest.from]
    /\ LET tx == h.digest.tx
           native == tx.data = <<>>
           ok == native \/ GeScaled(chain.tokenBal, tx.data[3].m, tx.data[3].e)
           from == h.digest.from
       IN /\ chain.balance[from] >= tx.value + GasCost
          /\ chain' = [chain EXCEPT
               !.height = @ + 1,
               !.txCount[from] = @ + 1,
               !.receipts = (h :> Receipt(IF ok THEN 1 ELSE 0, GasUsedBy(h),
                                          chain.height + 1)) @@ @,
               !.balance = LET paid == [@ EXCEPT ![from] = @ - GasCost]
                           IN IF native THEN Transfer(paid, from, tx.to, tx.value)
                              ELSE paid,
               !.tokenBal = IF ~native /\ ok
                            THEN @ - ScaledValue(tx.data[3].m, tx.data[3].e)
                            ELSE @]
    /\ UNCHANGED <<fr, lastStatus, cls, page, callers, handler>>

----------------------------------------------------------------------------
(* The handler: BNBTransfer and TokenTransfer keep the client of the RPC
   endpoint they were constructed with and the configured chain id *)

RpcUrls == {"https://data-seed-prebsc-1-s1.binance.org:8545/", "custom"}

\* the chain id the node behind an endpoint reports
NodeChainId(rpc_url) ==
    IF rpc_url = "custom" THEN 56 ELSE BSC_TESTNET_CHAIN_ID

\* (faulty variant) the chain id is taken from the node of the endpoint
NewHandlerOfNode(rpc_url) == [rpc_url |-> rpc_url, chain_id |-> NodeChainId(rpc_url)]

\* __init__(rpc_url)
NewHandler(rpc_url) == [rpc_url |-> rpc_url, chain_id |-> BSC_TESTNET_CHAIN_ID]

\* (faulty variant) a method keeps the key of the call in progress on self
HandlerKeepsKey(h) ==
    [f \in {"rpc_url", "chain_id", "private_key"} |->
        IF f = "private_key" THEN fr.key ELSE h[f]]

\* (faulty variant) a call refreshes the chain id of the handler from the node
HandlerRefreshed(h) == [h EXCEPT !.chain_id = NodeChainId(h.rpc_url)]

\* the fields of the handler after a call of one of its methods: no method
\* assigns to self
HandlerAfterCall(h) == h

----------------------------------------------------------------------------
(* The Send BNB page of the dashboard.  session_state is st.session_state;
   running holds the arguments of the send_bnb call the script run is in;
   requested is the widget the user touched while that run was going on;
   shown is what the last run left on the page; stored and sent count the times the page stored transaction data and
   called send_bnb. *)

\* if 'bnb_confirm_pending' not in st.session_state: ... = False;
\* if 'bnb_tx_data' not in st.session_state: ... = {}
NoSession == [bnb_confirm_pending |-> FALSE, bnb_tx_data |-> None]

FirstLoad ==
    [session_state |-> NoSession, running |-> None, requested |-> None,
     shown |-> "form", stored |-> 0, sent |-> 0]

----------------------------------------------------------------------------
(* The caller's frame: the operation in progress, its arguments and locals,
   and its outcome (a returned result or a raised exception).  log lists the
   methods entered and the collaborator calls made by the operation, and
   rpcError keeps the text of the exception sendRawTransaction raised. *)

Idle ==
    [pc |-> "idle", op |-> "none", watcher |-> "none",
     key |-> "none", to |-> "none", token |-> "none", amount |-> 0,
     gas_price |-> None,
     strength |-> 0, mnemonic |-> None, account_index |-> 0, private_key |-> None,
     wallet_address |-> "none", token_addresses |-> None, lookups |-> <<>>,
     wait |-> FALSE, from |-> "none",
     balRead |-> None, decimals |-> None,
     tx |-> None, signed |-> None, hash |-> None,
     timeout |-> 0, elapsed |-> 0, polled |-> FALSE, pollStart |-> 0,
     lookup |-> 0, receipt |-> None,
     sent |-> None, rpcError |-> None,
     result |-> None, error |-> None, log |-> <<>>]

\* raise: the operation ends with the exception e
Raise(f, e) == [f EXCEPT !.pc = "done", !.error = Some(e)]

\* return: the operation ends with the result r
Return(f, r) == [f EXCEPT !.pc = "done", !.result = Some(r)]

Logged(f, names) == [f EXCEPT !.log = @ \o names]

(* Private keys as a caller can pass them: the hex string of A's key with
   and without the 0x prefix, the same key as a bytes object, and a string
   that is no key.  "hexC" is the key of the second sender C. *)
Keys == {"hexA", "0xhexA", "bytesA", "notakey"}

\* Account.from_key(private_key).address, None when it raises
AccountFromKey(key) ==
    IF key \in {"hexA", "0xhexA", "bytesA"} THEN Some(Sender)
    ELSE IF key = "hexC" THEN Some(Sender2)
    ELSE None

\* private_key.startswith('0x') is defined for a str only
IsStr(key) == key \in {"hexA", "0xhexA", "hexC", "notakey"}

\* the recipient's address written in lower case, without the checksum
RecipientLower == "b"

\* web3.is_address: a checksummed address or an address all in lower case
IsAddress(a) == a \in {Sender, Sender2, Recipient, TokenContract, RecipientLower}

\* web3.to_checksum_address
ToChecksumAddress(a) == IF a = RecipientLower THEN Recipient ELSE a

Addresses == {Recipient, RecipientLower, "notanaddress"}

\* amounts a caller can pass: the non-negative floats and a negative one
Amounts == Floats \cup {-1}

\* the gas_price argument of a build: left out, or a price in gwei
GasPrices == {None, Some(PassedGasPrice)}

ExplorerUrl(h) == <<"https://testnet.bscscan.com/tx/", h>>

----------------------------------------------------------------------------
(* BNBTransfer *)

BSC_TESTNET_FAUCETS ==
    <<"https://testnet.bnbchain.org/faucet-smart",
      "https://testnet.binance.org/faucet-smart">>

\* get_balance: the balance in wei and, as a float, in BNB; None when the call raises
GetBalance(address, rpcOk) ==
    IF rpcOk
    THEN Some([balance_wei |-> chain.balance[address],
               balance_bnb |-> ToFloat(chain.balance[address])])
    ELSE None

\* (faulty variant) the gate asks for the amount and the fee
GateBlocksWithGas(balance_bnb, amount_bnb) == balance_bnb < amount_bnb + GasCost

\* (faulty variant) the comparison of the gate the wrong way round
GateBlocksInverted(balance_bnb, amount_bnb) == amount_bnb < balance_bnb

\* send_bnb: if balance_info['balance_bnb'] < amount_bnb
GateBlocks(balance_bnb, amount_bnb) == balance_bnb < amount_bnb

\* send_bnb: the ValueError of the balance gate
InsufficientBalance(balance_bnb, amount_bnb, from_address) ==
    Err("ValueError", "Insufficient balance", NoText,
        ("available" :> balance_bnb) @@ ("required" :> amount_bnb) @@
        (IF balance_bnb = 0
         THEN ("faucets" :> BSC_TESTNET_FAUCETS) @@ ("address" :> from_address)
         ELSE NoInfo))

\* web3.to_wei(amount, 'ether'): None when it raises (a negative amount)
ToWei(amount) == IF amount < 0 THEN None ELSE Some(amount)

\* (faulty variant) a failed gas price call leaves the price unset
EstimateGasPriceNoDefault(rpcOk) == IF rpcOk THEN NodeGasPrice ELSE 0

\* estimate_gas_price: the node's price, the default when the call raises
EstimateGasPrice(rpcOk) == IF rpcOk THEN NodeGasPrice ELSE DEFAULT_GAS_PRICE

\* estimate_gas_price: the call made, and the warning logged when it raises
GasPriceCalls(rpcOk) ==
    IF rpcOk THEN <<"getGasPrice">> ELSE <<"getGasPrice", "warning">>

\* if gas_price is None: gas_price = self.estimate_gas_price()
GasPriceOf(gas_price, rpcOk) ==
    IF IsSome(gas_price) THEN Get(gas_price) ELSE EstimateGasPrice(rpcOk)

\* the calls the frame makes for the gas price of the build
WithGasPrice(f, rpcOk) ==
    IF IsSome(f.gas_price) THEN f ELSE Logged(f, GasPriceCalls(rpcOk))

\* (faulty variant) the count the handler read when it was constructed
NonceAtConstruction(c, address) == 0

\* nonce = self.web3.eth.get_transaction_count(from_checksum)
GetTransactionCount(c, address) == c.txCount[address]

\* create_transaction: the transaction dictionary
NativeTx(nonce, to, amount_wei, gas_price) ==
    [nonce |-> nonce, to |-> to, value |-> amount_wei, gas |-> DEFAULT_GAS_LIMIT,
     gasPrice |-> gas_price, chainId |-> handler.chain_id, data |-> <<>>]

(* send_bnb, up to the balance gate: the sender's address from the key, the
   balance read, the comparison with the amount *)
SendBnbGate(f, rpcOk) ==
    LET acct == AccountFromKey(f.key)
        f1 == Logged(f, <<"send_bnb", "from_key">>)
        f2 == Logged([f1 EXCEPT !.from = Get(acct)], <<"get_balance", "getBalance">>)
        bal == GetBalance(Get(acct), rpcOk)
        f3 == [f2 EXCEPT !.balRead = Some(Get(bal).balance_bnb)]
    IN IF ~IsSome(acct)
         THEN Raise(f1, Err("ValueError", "Invalid private key", NoText, NoInfo))
       ELSE IF ~IsSome(bal) THEN Raise(f2, RpcDown)
       ELSE IF GateBlocks(Get(bal).balance_bnb, f.amount)
         THEN Raise(f3, InsufficientBalance(Get(bal).balance_bnb, f.amount, Get(acct)))
       ELSE [f3 EXCEPT !.pc = "build"]

SendBnb(key, to, amount, wait, rpcOk) ==
    /\ fr.pc = "idle"
    /\ Cardinality(chain.mempool) < MaxTx
    /\ fr' = SendBnbGate([Idle EXCEPT !.op = "send_bnb", !.watcher = "bnb",
                            !.key = key, !.to = to, !.amount = amount,
                            !.wait = wait], rpcOk)
    /\ handler' = HandlerAfterCall(handler)
    /\ UNCHANGED <<chain, lastStatus, cls, page, callers>>

(* create_transaction(from_address, to_address, amount_bnb): address
   validation, amount in wei, gas price, nonce *)
CreateTransactionStep(f, gasOk, nonceOk) ==
    LET f1 == Logged(f, <<"create_transaction">>)
        wei == ToWei(f.amount)
        f2 == WithGasPrice(f1, gasOk)
        f3 == Logged(f2, <<"getTransactionCount">>)
    IN IF ~IsAddress(f.from)
         THEN Raise(f1, Err("ValueError", "Invalid from_address format", NoText, NoInfo))
       ELSE IF ~IsAddress(f.to)
         THEN Raise(f1, Err("ValueError", "Invalid to_address format", NoText, NoInfo))
       ELSE IF ~IsSome(wei)
         THEN Raise(f1, Err("ValueError", "Resulting wei value out of range", NoText, NoInfo))
       ELSE IF ~nonceOk THEN Raise(f3, RpcDown)
       ELSE [f3 EXCEPT !.pc = "sign",
                       !.tx = Some(NativeTx(GetTransactionCount(chain, f.from),
                                            ToChecksumAddress(f.to), Get(wei),
                                            GasPriceOf(f.gas_price, gasOk)))]

CreateTransaction(gasOk, nonceOk) ==
    /\ fr.pc = "build" /\ fr.op = "send_bnb"
    /\ fr' = CreateTransactionStep(fr, gasOk, nonceOk)
    /\ handler' = HandlerAfterCall(handler)
    /\ UNCHANGED <<chain, lastStatus, cls, page, callers>>

\* a build called on its own returns the transaction it built
ReturnBuilt(f) == IF f.pc = "sign" THEN Return(f, Get(f.tx)) ELSE f

\* a direct call of create_transaction(from_address, to_address, amount_bnb, gas_price)
CreateTransactionCall(to, amount, gas_price, gasOk, nonceOk) ==
    /\ fr.pc = "idle"
    /\ fr' = ReturnBuilt(CreateTransactionStep(
                 [Idle EXCEPT !.op = "create_transaction", !.from = Sender,
                              !.to = to, !.amount = amount, !.gas_price = gas_price],
                 gasOk, nonceOk))
    /\ handler' = HandlerAfterCall(handler)
    /\ UNCHANGED <<chain, lastStatus, cls, page, callers>>

(* sign_transaction(transaction, private_key): strips the 0x prefix of the
   key and signs; startswith raises on a key that is no str *)
SignTransactionStep(f, name) ==
    LET f1 == Logged(f, <<name>>)
    IN IF ~IsStr(f.key)
         THEN Raise(f1, Err("TypeError", "startswith", NoText, NoInfo))
       ELSE [f1 EXCEPT !.pc = "broadcast",
                       !.signed = Some([tx |-> Get(f.tx), from |-> f.from])]

SignTransaction ==
    /\ fr.pc = "sign" /\ fr.op = "send_bnb"
    /\ fr' = SignTransactionStep(fr, "sign_transaction")
    /\ handler' = HandlerAfterCall(handler)
    /\ UNCHANGED <<chain, lastStatus, cls, page, callers>>

\* error texts the node answers a submission with, one or more of each class
ErrTexts ==
    {Text(<<"insufficient", "funds">>, FALSE),
     Text(<<"nonce", "too", "low">>, TRUE),
     Text(<<"nonce", "too", "high">>, FALSE),
     Text(<<"gas", "price", "too", "low">>, FALSE),
     Text(<<"intrinsic", "gas", "too", "low">>, FALSE),
     Text(<<"connection", "reverted">>, FALSE),
     Text(<<"timeout">>, TRUE),
     Text(<<"reverted">>, FALSE)}

\* two transactions of one sender with one nonce
SameSlot(g, h) ==
    g.digest.from = h.digest.from /\ g.digest.tx.nonce = h.digest.tx.nonce

\* the pending transactions of the pool that h competes with
Rivals(h) == {g \in chain.mempool : SameSlot(g, h) /\ ~HasReceipt(g)}

\* the pool replaces a pending transaction by one that pays a tenth more
Replaces(new, old) == 10 * new.gasPrice >= 11 * old.gasPrice

\* the sender's balance covers the value and the fee of the transaction
Funded(h) == chain.balance[h.digest.from] >= h.digest.tx.value + GasCost

(* The node takes a submission that is new, whose sender can pay for it, whose
   nonce is not used up and that pays enough to replace the pending
   transaction of the same sender and nonce, if there is one; the replaced
   transaction leaves the pool. *)
NodeTakes(h) ==
    /\ h \notin chain.mempool
    /\ Funded(h)
    /\ h.digest.tx.nonce >= chain.txCount[h.digest.from]
    /\ \A g \in Rivals(h) : Replaces(h.digest.tx, g.digest.tx)

PoolAfter(h) == (chain.mempool \ Rivals(h)) \cup {h}

NodeAccepts(h) ==
    /\ NodeTakes(h)
    /\ Cardinality(chain.mempool) < MaxTx

\* the result dictionary of send_bnb before the confirmation is merged in
SendBnbResult(f, h) ==
    ("tx_hash" :> h) @@ ("from_address" :> f.from) @@ ("to_address" :> f.to) @@
    ("amount_bnb" :> f.amount) @@ ("explorer_url" :> ExplorerUrl(h))

\* wait_for_confirmation(tx_hash, timeout): entry
WaitStart(f, h, timeout) ==
    Logged([f EXCEPT !.pc = "watch", !.hash = Some(h), !.timeout = timeout,
                     !.elapsed = 0, !.polled = FALSE, !.pollStart = 0,
                     !.lookup = 0, !.receipt = None],
           <<"wait_for_confirmation">>)

\* (faulty variant) the confirmation is waited for whatever the caller asked
BroadcastOkAlwaysWaits(f, h, result) ==
    WaitStart([Logged(f, <<"broadcast_transaction", "sendRawTransaction">>)
                 EXCEPT !.hash = Some(h), !.sent = Some(result)], h, SendTimeout)

(* broadcast_transaction(signed_tx) of send_bnb: the hash when the node takes
   the transaction, the classified exception otherwise; then the result, or
   the wait for the confirmation *)
BroadcastOk(f, h, result) ==
    LET f1 == Logged(f, <<"broadcast_transaction", "sendRawTransaction">>)
        f2 == [f1 EXCEPT !.hash = Some(h), !.sent = Some(result)]
    IN IF f.wait THEN WaitStart(f2, h, SendTimeout) ELSE Return(f2, result)

\* (faulty variant) the failed submission is swallowed and the wait starts all the same
BroadcastFailContinue(f, e, error) ==
    WaitStart([Logged(f, <<"broadcast_transaction", "sendRawTransaction">>)
                 EXCEPT !.rpcError = Some(e)], TxHash(Get(f.signed)), SendTimeout)

\* (faulty variant) the failed submission is tried again
BroadcastFailRetry(f, e, error) ==
    [Logged(f, <<"broadcast_transaction", "sendRawTransaction">>)
       EXCEPT !.rpcError = Some(e)]

BroadcastFail(f, e, error) ==
    Raise([Logged(f, <<"broadcast_transaction", "sendRawTransaction">>)
             EXCEPT !.rpcError = Some(e)], error)

BroadcastTransaction ==
    /\ fr.pc = "broadcast" /\ fr.op = "send_bnb"
    /\ LET h == TxHash(Get(fr.signed)) IN
       \/ /\ NodeAccepts(h)
          /\ chain' = [chain EXCEPT !.mempool = PoolAfter(h)]
          /\ fr' = BroadcastOk(fr, h, SendBnbResult(fr, h))
       \/ /\ \E e \in ErrTexts : fr' = BroadcastFail(fr, e, ClassifyBroadcastError(e))
          /\ UNCHANGED chain
    /\ handler' = HandlerAfterCall(handler)
    /\ UNCHANGED <<lastStatus, cls, page, callers>>

----------------------------------------------------------------------------
(* wait_for_confirmation *)

\* (faulty variant) the deadline test with <= for <
LoopCondInclusive(elapsed, timeout) == elapsed <= timeout

\* while time.time() - start_time < timeout
LoopCond(elapsed, timeout) == elapsed < timeout

\* (faulty variant) the status bit of the receipt is not looked at
StatusAlwaysSuccess(receipt) == "Success"

\* status = "Success" if receipt.status == 1 else "Failed"
StatusOf(receipt) == IF receipt.status = 1 THEN "Success" ELSE "Failed"

\* the dictionary wait_for_confirmation returns
Confirmation(tx_hash, receipt, confirmation_time) ==
    ("tx_hash" :> tx_hash) @@ ("status" :> StatusOf(receipt)) @@
    ("gas_used" :> receipt.gasUsed) @@ ("block_number" :> receipt.blockNumber) @@
    ("confirmation_time" :> confirmation_time)

\* raise TimeoutError(f"Transaction confirmation timeout after {timeout} seconds")
ConfirmationTimeout(timeout) ==
    Err("TimeoutError", "Transaction confirmation timeout", NoText,
        ("timeout" :> timeout))

\* (faulty variant) the receipt is looked up by sender and nonce
LookupReceiptBySlot(h, rpcOk) ==
    LET mined == {g \in DOMAIN chain.receipts : SameSlot(g, h)}
    IN IF rpcOk /\ mined # {}
       THEN Some(chain.receipts[CHOOSE g \in mined : TRUE])
       ELSE None

\* web3.eth.get_transaction_receipt(tx_hash): the receipt, or nothing; the
\* caller finds out through rpcOk whether the call raised
LookupReceipt(h, rpcOk) == IF rpcOk THEN ReceiptOf(h) ELSE None

\* (faulty variant) the exception of a lookup ends the watch as if the
\* deadline had passed
OnPollErrorGiveUp(f) == Raise(f, ConfirmationTimeout(f.timeout))

\* (faulty variant) the exception of a lookup leaves the loop
OnPollErrorRaise(f) == Raise(f, RpcDown)

\* except Exception: pass
OnPollError(f) == f

\* time.sleep(2)
Sleep(f, lat) == [f EXCEPT !.elapsed = @ + lat + POLL_INTERVAL]

\* (faulty variant) the deadline is reported as a status instead of raised
OnDeadlineNotFound(f) ==
    Return(f, ("tx_hash" :> Get(f.hash)) @@ ("status" :> "Not Found"))

\* the loop is left by its condition: raise TimeoutError
OnDeadline(f) == Raise(f, ConfirmationTimeout(f.timeout))

\* (faulty variant) a receipt of a reverted transaction is raised as an error
WaitReturnRaisesOnRevert(f, confirmation) ==
    IF confirmation["status"] = "Failed"
    THEN Raise(f, Err("ValueError", "Transaction failed", NoText, NoInfo))
    ELSE IF f.op = "wait" THEN Return(f, confirmation)
    ELSE Return(f, confirmation @@ Get(f.sent))

\* a direct caller gets the dictionary; send_bnb and send_token do
\* result.update(confirmation) and return the result
WaitReturn(f, confirmation) ==
    IF f.op = "wait" THEN Return(f, confirmation)
    ELSE Return(f, confirmation @@ Get(f.sent))

(* One pass of the loop: the deadline test passed; the lookup takes `lat`
   seconds; a receipt ends the wait, anything else sleeps POLL_INTERVAL. *)
WaitPollStep(f, lat, rpcOk) ==
    LET got == LookupReceipt(Get(f.hash), rpcOk)
        f1 == [f EXCEPT !.polled = TRUE, !.pollStart = f.elapsed, !.lookup = lat,
                        !.log = IF Len(@) > 0 /\ @[Len(@)] = "getTransactionReceipt"
                                THEN @ ELSE Append(@, "getTransactionReceipt")]
    IN IF ~rpcOk THEN Sleep(OnPollError(f1), lat)
       ELSE IF IsSome(got)
       THEN WaitReturn([f1 EXCEPT !.receipt = got, !.elapsed = f.elapsed + lat],
                       Confirmation(Get(f.hash), Get(got), f.elapsed + lat))
       ELSE Sleep(f1, lat)

WaitPoll(lat, rpcOk) ==
    /\ fr.pc = "watch"
    /\ LoopCond(fr.elapsed, fr.timeout)
    /\ fr' = WaitPollStep(fr, lat, rpcOk)
    /\ handler' = HandlerAfterCall(handler)
    /\ UNCHANGED <<chain, lastStatus, cls, page, callers>>

WaitTimeout ==
    /\ fr.pc = "watch"
    /\ ~LoopCond(fr.elapsed, fr.timeout)
    /\ fr' = OnDeadline(fr)
    /\ handler' = HandlerAfterCall(handler)
    /\ UNCHANGED <<chain, lastStatus, cls, page, callers>>

\* a direct call of wait_for_confirmation(tx_hash, timeout)
WaitForConfirmation(h, timeout) ==
    /\ fr.pc = "idle"
    /\ fr' = WaitStart([Idle EXCEPT !.op = "wait", !.watcher = "bnb"], h, timeout)
    /\ handler' = HandlerAfterCall(handler)
    /\ UNCHANGED <<chain, lastStatus, cls, page, callers>>

----------------------------------------------------------------------------
(* TokenTransfer *)

TokenAddresses == {TokenContract, "notanaddress"}
TokenAmounts == 0..MaxTok \cup {-1}

\* get_token_info: decimals() of the contract, 18 when the call raises
TokenDecimals(decOk) == IF decOk THEN chain.decimals ELSE DEFAULT_DECIMALS

\* get_token_balance: balance_raw and the decimals it is formatted with
GetTokenBalance(decOk, balOk) ==
    IF balOk
    THEN Some([balance_raw |-> chain.tokenBal, decimals |-> TokenDecimals(decOk)])
    ELSE None

\* (faulty variant) the gate compares the raw balance with the amount
TokenGateOnRaw(bal, amount) == bal.balance_raw < amount

\* send_token: if balance_info['balance_formatted'] < amount,
\* with balance_formatted = balance_raw / (10 ** decimals)
TokenGateBlocks(bal, amount) ==
    amount > 0 /\ ~GeScaled(bal.balance_raw, amount, bal.decimals)

\* amount_raw = int(amount * (10 ** decimals)), kept as mantissa and exponent
AmountRaw(amount, decimals) == [m |-> amount, e |-> decimals]

\* contract.functions.transfer(to, amount_raw).build_transaction({...})
TokenTx(token, nonce, to, amount_raw, gas_price) ==
    [nonce |-> nonce, to |-> token, value |-> 0, gas |-> TOKEN_TRANSFER_GAS_LIMIT,
     gasPrice |-> gas_price, chainId |-> handler.chain_id,
     data |-> <<"transfer", to, amount_raw>>]

(* send_token up to the first get_token_info: the sender's address from the
   key, the contract, the token information *)
SendTokenInfo(f, decOk) ==
    LET acct == AccountFromKey(f.key)
        f1 == Logged(f, <<"send_token", "from_key">>)
        f2 == Logged([f1 EXCEPT !.from = Get(acct)], <<"get_token_info">>)
        f3 == Logged(f2, <<"decimals">>)
    IN IF ~IsSome(acct)
         THEN Raise(f1, Err("ValueError", "Invalid private key", NoText, NoInfo))
       ELSE IF ~IsAddress(f.token)
         THEN Raise(f2, Err("ValueError", "Invalid token address format", NoText, NoInfo))
       ELSE [f3 EXCEPT !.pc = "gate"]

SendToken(key, token, to, amount, wait, decOk) ==
    /\ fr.pc = "idle"
    /\ Cardinality(chain.mempool) < MaxTx
    /\ fr' = SendTokenInfo([Idle EXCEPT !.op = "send_token", !.watcher = "token",
                              !.key = key, !.token = token, !.to = to,
                              !.amount = amount, !.wait = wait], decOk)
    /\ handler' = HandlerAfterCall(handler)
    /\ UNCHANGED <<chain, lastStatus, cls, page, callers>>

(* send_token: get_token_balance and the balance gate *)
TokenGateStep(f, decOk, balOk) ==
    LET f1 == Logged(f, <<"get_token_balance", "decimals", "balanceOf">>)
        bal == GetTokenBalance(decOk, balOk)
        f2 == [f1 EXCEPT !.balRead = Some(Get(bal).balance_raw),
                         !.decimals = Some(Get(bal).decimals)]
    IN IF ~IsSome(bal) THEN Raise(f1, RpcDown)
       ELSE IF TokenGateBlocks(Get(bal), f.amount)
         THEN Raise(f2, Err("ValueError", "Insufficient token balance", NoText,
                            ("available" :> Get(bal))))
       ELSE [f2 EXCEPT !.pc = "build"]

TokenGate(decOk, balOk) ==
    /\ fr.pc = "gate" /\ fr.op = "send_token"
    /\ fr' = TokenGateStep(fr, decOk, balOk)
    /\ handler' = HandlerAfterCall(handler)
    /\ UNCHANGED <<chain, lastStatus, cls, page, callers>>

(* create_token_transfer_transaction: token information, address validation,
   raw amount, gas price, nonce, the encoded call *)
CreateTokenTransferStep(f, decOk, gasOk, nonceOk) ==
    LET f1 == Logged(f, <<"create_token_transfer_transaction", "decimals">>)
        f2 == Logged(WithGasPrice(f1, gasOk), <<"getTransactionCount">>)
        amount_raw == AmountRaw(f.amount, TokenDecimals(decOk))
    IN IF ~IsAddress(f.to)
         THEN Raise(f1, Err("ValueError", "Invalid to_address format", NoText, NoInfo))
       ELSE IF ~nonceOk THEN Raise(f2, RpcDown)
       ELSE IF f.amount < 0
         THEN Raise(f2, Err("ValidationError", "uint256 out of range", NoText, NoInfo))
       ELSE [f2 EXCEPT !.pc = "sign",
                       !.tx = Some(TokenTx(ToChecksumAddress(f.token),
                                           GetTransactionCount(chain, f.from),
                                           ToChecksumAddress(f.to),
                                           amount_raw, GasPriceOf(f.gas_price, gasOk)))]

CreateTokenTransfer(decOk, gasOk, nonceOk) ==
    /\ fr.pc = "build" /\ fr.op = "send_token"
    /\ fr' = CreateTokenTransferStep(fr, decOk, gasOk, nonceOk)
    /\ handler' = HandlerAfterCall(handler)
    /\ UNCHANGED <<chain, lastStatus, cls, page, callers>>

\* a direct call of create_token_transfer_transaction(token_address,
\* from_address, to_address, amount, abi, gas_price)
CreateTokenTransferCall(to, amount, gas_price, decOk, gasOk, nonceOk) ==
    /\ fr.pc = "idle"
    /\ fr' = ReturnBuilt(CreateTokenTransferStep(
                 [Idle EXCEPT !.op = "create_token_transfer_transaction",
                              !.from = Sender, !.token = TokenContract,
                              !.to = to, !.amount = amount, !.gas_price = gas_price],
                 decOk, gasOk, nonceOk))
    /\ handler' = HandlerAfterCall(handler)
    /\ UNCHANGED <<chain, lastStatus, cls, page, callers>>

TokenSignTransaction ==
    /\ fr.pc = "sign" /\ fr.op = "send_token"
    /\ fr' = SignTransactionStep(fr, "sign_transaction")
    /\ handler' = HandlerAfterCall(handler)
    /\ UNCHANGED <<chain, lastStatus, cls, page, callers>>

\* the result dictionary of send_token before the confirmation is merged in
SendTokenResult(f, h) ==
    ("tx_hash" :> h) @@ ("from_address" :> f.from) @@ ("to_address" :> f.to) @@
    ("token_address" :> ToChecksumAddress(f.token)) @@ ("amount" :> f.amount) @@
    ("explorer_url" :> ExplorerUrl(h))

(* broadcast_transaction(signed_tx) of send_token *)
TokenBroadcastTransaction ==
    /\ fr.pc = "broadcast" /\ fr.op = "send_token"
    /\ LET h == TxHash(Get(fr.signed)) IN
       \/ /\ NodeAccepts(h)
          /\ chain' = [chain EXCEPT !.mempool = PoolAfter(h)]
          /\ fr' = BroadcastOk(fr, h, SendTokenResult(fr, h))
       \/ /\ \E e \in ErrTexts : fr' = BroadcastFail(fr, e, TokenBroadcastError(e))
          /\ UNCHANGED chain
    /\ handler' = HandlerAfterCall(handler)
    /\ UNCHANGED <<lastStatus, cls, page, callers>>

----------------------------------------------------------------------------
(* BSCWallet.get_transaction_status *)

\* the dictionary of the receipt branch
StatusFromReceipt(tx_hash, receipt) ==
    ("tx_hash" :> tx_hash) @@ ("status" :> StatusOf(receipt)) @@
    ("block_number" :> Some(receipt.blockNumber)) @@ ("gas_used" :> receipt.gasUsed) @@
    ("explorer_url" :> ExplorerUrl(tx_hash))

\* the dictionary of the get_transaction branch; blockNumber is null while pending
StatusPending(tx_hash, blockNumber) ==
    ("tx_hash" :> tx_hash) @@ ("status" :> "Pending") @@
    ("block_number" :> blockNumber) @@ ("explorer_url" :> ExplorerUrl(tx_hash))

\* (faulty variant) the innermost except branch reports Pending
StatusNotFoundAsPending(tx_hash) ==
    ("tx_hash" :> tx_hash) @@ ("status" :> "Pending") @@
    ("explorer_url" :> ExplorerUrl(tx_hash))

\* the dictionary of the innermost except branch
StatusNotFound(tx_hash) ==
    ("tx_hash" :> tx_hash) @@ ("status" :> "Not Found") @@
    ("explorer_url" :> ExplorerUrl(tx_hash))

\* the caller is handed the dictionary; lastStatus keeps, per hash, the last
\* Success or Failed a query reported
Report(h, result) ==
    IF result["status"] \in {"Success", "Failed"}
    THEN (h :> result["status"]) @@ lastStatus
    ELSE lastStatus

(* the receipt lookup: a receipt gives Success or Failed; an exception of
   the lookup (no such receipt, or a failed call) leads to the second lookup *)
GetTransactionStatus(h, rpcOk) ==
    /\ fr.pc = "idle"
    /\ LET f == Logged([Idle EXCEPT !.op = "status", !.hash = Some(h)],
                       <<"get_transaction_status", "getTransactionReceipt">>)
           got == LookupReceipt(h, rpcOk)
       IN IF IsSome(got)
          THEN /\ fr' = Return([f EXCEPT !.receipt = got],
                               StatusFromReceipt(h, Get(got)))
               /\ lastStatus' = Report(h, StatusFromReceipt(h, Get(got)))
          ELSE /\ fr' = [f EXCEPT !.pc = "status_tx"]
               /\ UNCHANGED lastStatus
    /\ handler' = HandlerAfterCall(handler)
    /\ UNCHANGED <<chain, cls, page, callers>>

(* the transaction lookup: a known transaction gives Pending, an exception
   (an unknown hash, or a failed call) gives Not Found *)
StatusTransactionLookup(rpcOk) ==
    /\ fr.pc = "status_tx"
    /\ LET h == Get(fr.hash)
           f == Logged(fr, <<"getTransaction">>)
           result == IF rpcOk /\ h \in chain.mempool
                     THEN StatusPending(h, IF HasReceipt(h)
                                           THEN Some(chain.receipts[h].blockNumber)
                                           ELSE None)
                     ELSE StatusNotFound(h)
       IN /\ fr' = Return(f, result)
          /\ lastStatus' = Report(h, result)
    /\ handler' = HandlerAfterCall(handler)
    /\ UNCHANGED <<chain, cls, page, callers>>

----------------------------------------------------------------------------
(* The caller takes the outcome of the finished operation *)

Done ==
    /\ fr.pc = "done"
    /\ fr' = Idle
    /\ UNCHANGED <<chain, lastStatus, cls, page, callers, handler>>

----------------------------------------------------------------------------

NoClassified == [text |-> NoText, bnb |-> None, token |-> None]

\* two callers that use the handler at the same time
Callers == {1, 2}

Init ==
    /\ \E b \in 0..MaxWei, t \in 0..MaxTok :
          chain = [balance |-> [a \in Accounts |-> IF a = Sender THEN b ELSE 0],
                   tokenBal |-> ScaledValue(t, TokenUnit),
                   decimals |-> TokenUnit, txCount |-> [a \in Accounts |-> 0],
                   height |-> 0, mempool |-> {}, receipts |-> [h \in {} |-> 0]]
    /\ fr = Idle
    /\ lastStatus = [h \in {} |-> 0]
    /\ cls = NoClassified
    /\ page = FirstLoad
    /\ callers = [i \in Callers |-> Idle]
    /\ \E url \in RpcUrls : handler = NewHandler(url)

KnownHashes == chain.mempool \cup {UnknownHash}

Next ==
    \/ \E key \in Keys, to \in Addresses, amount \in Amounts, wait, rpcOk \in BOOLEAN :
          SendBnb(key, to, amount, wait, rpcOk)
    \/ \E gasOk, nonceOk \in BOOLEAN : CreateTransaction(gasOk, nonceOk)
    \/ \E to \in Addresses, amount \in Amounts, gas_price \in GasPrices,
          gasOk, nonceOk \in BOOLEAN :
          CreateTransactionCall(to, amount, gas_price, gasOk, nonceOk)
    \/ SignTransaction
    \/ BroadcastTransaction
    \/ \E key \in Keys, token \in TokenAddresses, to \in Addresses,
          amount \in TokenAmounts, wait, decOk \in BOOLEAN :
          SendToken(key, token, to, amount, wait, decOk)
    \/ \E decOk, balOk \in BOOLEAN : TokenGate(decOk, balOk)
    \/ \E decOk, gasOk, nonceOk \in BOOLEAN : CreateTokenTransfer(decOk, gasOk, nonceOk)
    \/ \E to \in Addresses, amount \in TokenAmounts, gas_price \in GasPrices,
          decOk, gasOk, nonceOk \in BOOLEAN :
          CreateTokenTransferCall(to, amount, gas_price, decOk, gasOk, nonceOk)
    \/ TokenSignTransaction
    \/ TokenBroadcastTransaction
    \/ \E h \in KnownHashes, timeout \in -1..MaxTimeout : WaitForConfirmation(h, timeout)
    \/ \E lat \in 0..MaxLatency, rpcOk \in BOOLEAN : WaitPoll(lat, rpcOk)
    \/ WaitTimeout
    \/ \E h \in KnownHashes, rpcOk \in BOOLEAN : GetTransactionStatus(h, rpcOk)
    \/ \E rpcOk \in BOOLEAN : StatusTransactionLookup(rpcOk)
    \/ Done
    \/ \E h \in chain.mempool : ChainMine(h)

Spec == Init /\ [][Next]_vars

----------------------------------------------------------------------------
(* Two transfers at the same time: each caller runs send_bnb once, with its
   own frame, and the steps of the two interleave with each other and with
   the chain.  In RaceSpec both send from A; in PairSpec one sends from A and
   the other from C. *)

RaceAmounts == {0, 1}

\* the balances the senders start with: up to an amount and its fee
RaceBalances == 0..(GasCost + 1)

\* error texts the node answers a submission of one of the two callers with
RaceErrTexts ==
    {Text(<<"nonce", "too", "low">>, FALSE), Text(<<"reverted">>, FALSE)}

InitTwo ==
    /\ \E a, c \in RaceBalances :
          chain = [balance |-> [x \in Accounts |-> IF x = Sender THEN a ELSE c],
                   tokenBal |-> 0, decimals |-> TokenUnit,
                   txCount |-> [x \in Accounts |-> 0],
                   height |-> 0, mempool |-> {}, receipts |-> [h \in {} |-> 0]]
    /\ fr = Idle
    /\ lastStatus = [h \in {} |-> 0]
    /\ cls = NoClassified
    /\ page = FirstLoad
    /\ callers = [i \in Callers |-> Idle]
    /\ \E url \in RpcUrls : handler = NewHandler(url)

RaceSendBnb(i, key, to, amount, wait, rpcOk) ==
    /\ callers[i] = Idle
    /\ callers' = [callers EXCEPT ![i] =
          SendBnbGate([Idle EXCEPT !.op = "send_bnb", !.watcher = "bnb",
                                   !.key = key, !.to = to,
                                   !.amount = amount, !.wait = wait], rpcOk)]
    /\ handler' = HandlerAfterCall(handler)
    /\ UNCHANGED <<chain, fr, lastStatus, cls, page>>

RaceCreateTransaction(i, gasOk, nonceOk) ==
    /\ callers[i].pc = "build"
    /\ callers' = [callers EXCEPT ![i] = CreateTransactionStep(@, gasOk, nonceOk)]
    /\ handler' = HandlerAfterCall(handler)
    /\ UNCHANGED <<chain, fr, lastStatus, cls, page>>

RaceSignTransaction(i) ==
    /\ callers[i].pc = "sign"
    /\ callers' = [callers EXCEPT ![i] = SignTransactionStep(@, "sign_transaction")]
    /\ handler' = HandlerAfterCall(handler)
    /\ UNCHANGED <<chain, fr, lastStatus, cls, page>>

RaceBroadcastTransaction(i) ==
    /\ callers[i].pc = "broadcast"
    /\ LET f == callers[i]
           h == TxHash(Get(f.signed)) IN
       \/ /\ NodeTakes(h)
          /\ chain' = [chain EXCEPT !.mempool = PoolAfter(h)]
          /\ callers' = [callers EXCEPT ![i] = BroadcastOk(f, h, SendBnbResult(f, h))]
       \/ /\ \E e \in RaceErrTexts :
                callers' = [callers EXCEPT ![i] =
                               BroadcastFail(f, e, ClassifyBroadcastError(e))]
          /\ UNCHANGED chain
    /\ handler' = HandlerAfterCall(handler)
    /\ UNCHANGED <<fr, lastStatus, cls, page>>

RaceWaitPoll(i, lat, rpcOk) ==
    /\ callers[i].pc = "watch"
    /\ LoopCond(callers[i].elapsed, callers[i].timeout)
    /\ callers' = [callers EXCEPT ![i] = WaitPollStep(@, lat, rpcOk)]
    /\ handler' = HandlerAfterCall(handler)
    /\ UNCHANGED <<chain, fr, lastStatus, cls, page>>

RaceWaitTimeout(i) ==
    /\ callers[i].pc = "watch"
    /\ ~LoopCond(callers[i].elapsed, callers[i].timeout)
    /\ callers' = [callers EXCEPT ![i] = OnDeadline(@)]
    /\ handler' = HandlerAfterCall(handler)
    /\ UNCHANGED <<chain, fr, lastStatus, cls, page>>

NextRace ==
    \/ \E i \in Callers, amount \in RaceAmounts, wait, rpcOk \in BOOLEAN :
          RaceSendBnb(i, "hexA", Recipient, amount, wait, rpcOk)
    \/ \E i \in Callers, gasOk, nonceOk \in BOOLEAN :
          RaceCreateTransaction(i, gasOk, nonceOk)
    \/ \E i \in Callers : RaceSignTransaction(i)
    \/ \E i \in Callers : RaceBroadcastTransaction(i)
    \/ \E i \in Callers, lat \in {0, MaxLatency}, rpcOk \in BOOLEAN :
          RaceWaitPoll(i, lat, rpcOk)
    \/ \E i \in Callers : RaceWaitTimeout(i)
    \/ \E h \in chain.mempool : ChainMine(h)

RaceSpec == InitTwo /\ [][NextRace]_vars

\* the key each caller of PairSpec sends with, and the account of that key
PairKey(i) == IF i = 1 THEN "hexA" ELSE "hexC"
PairSender(i) == Get(AccountFromKey(PairKey(i)))

\* a third party, or the other caller's account
PairRecipients(i) == {Recipient, PairSender(3 - i)}

NextPair ==
    \/ \E i \in Callers, amount \in RaceAmounts, wait, rpcOk \in BOOLEAN :
          \E to \in PairRecipients(i) :
             RaceSendBnb(i, PairKey(i), to, amount, wait, rpcOk)
    \/ \E i \in Callers, gasOk, nonceOk \in BOOLEAN :
          RaceCreateTransaction(i, gasOk, nonceOk)
    \/ \E i \in Callers : RaceSignTransaction(i)
    \/ \E i \in Callers : RaceBroadcastTransaction(i)
    \/ \E i \in Callers, lat \in {0, MaxLatency}, rpcOk \in BOOLEAN :
          RaceWaitPoll(i, lat, rpcOk)
    \/ \E i \in Callers : RaceWaitTimeout(i)
    \/ \E h \in chain.mempool : ChainMine(h)

PairSpec == InitTwo /\ [][NextPair]_vars

----------------------------------------------------------------------------
(* The watcher alone, against a chain on which no receipt ever appears (no
   block is produced): direct calls of wait_for_confirmation.  The loop is
   the caller's own thread of control, so each of its steps is taken once it
   is enabled. *)

NextWatch ==
    \/ \E h \in KnownHashes, timeout \in -1..MaxTimeout : WaitForConfirmation(h, timeout)
    \/ \E lat \in 0..MaxLatency, rpcOk \in BOOLEAN : WaitPoll(lat, rpcOk)
    \/ WaitTimeout
    \/ Done

WatchSpec ==
    /\ Init
    /\ [][NextWatch]_vars
    /\ WF_vars(\E lat \in 0..MaxLatency, rpcOk \in BOOLEAN : WaitPoll(lat, rpcOk))
    /\ WF_vars(WaitTimeout)

----------------------------------------------------------------------------
(* The two broadcasters' except branches as functions of the error text:
   every text of at most MaxLen words, in lower case and in capitals *)

RECURSIVE TextsOfLen(_)
TextsOfLen(n) ==
    IF n = 0 THEN {<<>>}
    ELSE {Append(t, w) : t \in TextsOfLen(n - 1), w \in Words}

AllTexts ==
    {Text(ws, caps) : ws \in UNION {TextsOfLen(n) : n \in 0..MaxLen},
                      caps \in BOOLEAN}

InitClassify ==
    /\ chain = [balance |-> [a \in Accounts |-> 0], tokenBal |-> 0,
                decimals |-> TokenUnit, txCount |-> [a \in Accounts |-> 0],
                height |-> 0, mempool |-> {}, receipts |-> [h \in {} |-> 0]]
    /\ fr = Idle
    /\ lastStatus = [h \in {} |-> 0]
    /\ \E t \in AllTexts : cls = [NoClassified EXCEPT !.text = t]
    /\ page = FirstLoad
    /\ callers = [i \in Callers |-> Idle]
    /\ handler = NewHandler(CHOOSE url \in RpcUrls : TRUE)

Classify ==
    /\ cls.bnb = None
    /\ cls' = [cls EXCEPT !.bnb = Some(ClassifyBroadcastError(cls.text)),
                          !.token = Some(TokenBroadcastError(cls.text))]
    /\ UNCHANGED <<chain, fr, lastStatus, callers, handler, page>>

SpecClassify == InitClassify /\ [][Classify]_vars

----------------------------------------------------------------------------
(* WalletGenerator.  A mnemonic is the sequence of its words, each word the
   index it has in the 2048-word list (2048 stands for a word that is not in
   the list).  The entropy is the sequence of 11-bit groups the words carry,
   the last group without the checksum bits.  SHA-256, PBKDF2, the BIP32
   child derivation and the curve are one-way functions of the libraries:
   the seed, the key at a path, the public key and the address are the terms
   built from their arguments, and the checksum is a stand-in hash. *)

\* the strengths Mnemonic.generate accepts
Strengths == {128, 160, 192, 224, 256}

\* strengths a caller can pass
StrengthArgs == Strengths \cup {64, 129, 512}

\* the leading n bits of the hash of the entropy (stand-in for SHA-256)
ChecksumBits(groups, n) == (5 * groups[Len(groups)] + 3 * groups[1] + 3) % Pow2(n)

\* (faulty variant) the words carry the entropy bits only
ToMnemonicNoChecksum(entropy, strength) ==
    [k \in 1..(strength \div 11) |-> IF k = strength \div 11 THEN entropy ELSE 0]

\* Mnemonic.to_mnemonic of an entropy below 2^3: strength bits and strength/32
\* checksum bits, cut into words of 11 bits
ToMnemonic(entropy, strength) ==
    LET cs == strength \div 32
        n == (strength + cs) \div 11
        groups == [k \in 1..n |-> IF k = n THEN entropy ELSE 0]
    IN [k \in 1..n |-> IF k = n THEN entropy * Pow2(cs) + ChecksumBits(groups, cs)
                       ELSE 0]

\* an argument that is no str
NotAString == <<-1>>

\* Mnemonic.check(mnemonic): None when it raises
MnemoCheck(mnemonic) ==
    IF mnemonic = NotAString THEN None
    ELSE LET n == Len(mnemonic)
             cs == n \div 3
             groups == [k \in 1..n |-> IF k = n THEN mnemonic[n] \div Pow2(cs)
                                       ELSE mnemonic[k]]
         IN Some(/\ n \in {12, 15, 18, 21, 24}
                 /\ \A k \in 1..n : mnemonic[k] < 2048
                 /\ mnemonic[n] % Pow2(cs) = ChecksumBits(groups, cs))

\* (faulty variant) the exception of the checksum routine reaches the caller
ValidateMnemonicRaising(mnemonic) == MnemoCheck(mnemonic)

\* validate_mnemonic as a call: Some(the boolean returned), None when it raises
ValidateMnemonicOutcome(mnemonic) ==
    IF MnemoCheck(mnemonic) = None THEN Some(FALSE) ELSE MnemoCheck(mnemonic)

\* (faulty variant) every mnemonic passes
ValidateMnemonicAccepting(mnemonic) == TRUE

\* validate_mnemonic(mnemonic) as derive_wallet_from_mnemonic uses it
ValidateMnemonic(mnemonic) ==
    IsSome(ValidateMnemonicOutcome(mnemonic)) /\ Get(ValidateMnemonicOutcome(mnemonic))

\* mnemonics a caller can pass: the generated ones, and of each 12-word one
\* a copy with a checksum bit flipped, a copy without its last word, a copy
\* with a word that is not in the list, and an object that is no str
Mnemonics ==
    LET good == {ToMnemonic(e, s) : e \in 0..MaxEntropy, s \in Strengths}
        short == {m \in good : Len(m) = 12}
    IN good
       \cup {[m EXCEPT ![Len(m)] = IF @ % 2 = 0 THEN @ + 1 ELSE @ - 1] : m \in short}
       \cup {SubSeq(m, 1, Len(m) - 1) : m \in short}
       \cup {[m EXCEPT ![1] = 2048] : m \in short}
       \cup {NotAString}

AccountIndexes == 0..MaxAccountIndex

\* (faulty variant) the seed depends on what the other caller is doing
Bip39SeedOfSession(mnemonic) ==
    [mnemonic |-> mnemonic, passphrase |-> callers[1].op]

\* Bip39SeedGenerator(mnemonic).Generate(), with the empty passphrase
Bip39Seed(mnemonic) == [mnemonic |-> mnemonic, passphrase |-> ""]

\* m/44'/60'/account'/0/address_index
Bip44Path(account, address_index) ==
    <<[index |-> 44, hardened |-> TRUE], [index |-> 60, hardened |-> TRUE],
      [index |-> account, hardened |-> TRUE], [index |-> 0, hardened |-> FALSE],
      [index |-> address_index, hardened |-> FALSE]>>

\* Purpose().Coin().Account(account_index).Change(CHAIN_EXT).AddressIndex(0)
WalkedPath(account_index) == Bip44Path(account_index, 0)

\* f"m/44'/60'/0'/0/{account_index}"
ReportedPath(account_index) ==
    [kind |-> "path", path |-> Bip44Path(0, account_index)]

\* the private key at the end of a path from the master key of a seed
KeyAt(seed, path) == [seed |-> seed, path |-> path]

\* a private key as the string of its hex digits
HexKey(scalar, prefix, bytes, inRange) ==
    [scalar |-> scalar, prefix |-> prefix, bytes |-> bytes, inRange |-> inRange]

\* (faulty variant) the length of the key is not checked
FromKeyAnyLength(private_key) ==
    IF private_key.inRange
    THEN Some([address |-> <<"address", private_key.scalar>>,
               public_key |-> <<"public_key", private_key.scalar>>])
    ELSE None

\* Account.from_key(private_key): the address and the public key of a scalar
\* of 32 bytes that is in the range of the curve, None when it raises
FromKey(private_key) ==
    IF private_key.bytes = 32 /\ private_key.inRange
    THEN Some([address |-> <<"address", private_key.scalar>>,
               public_key |-> <<"public_key", private_key.scalar>>])
    ELSE None

\* the text "N/A (imported from private key)": five words, none in the list
NotAvailable == [k \in 1..5 |-> 2048]

\* (faulty variant) create_new_wallet derives the last account
DefaultAccountIndexOne == MaxAccountIndex

\* the default of account_index
DefaultAccountIndex == 0

\* generate_mnemonic(strength), the entropy drawn being `entropy`
GenerateMnemonicStep(f, entropy) ==
    LET f1 == Logged(f, <<"generate_mnemonic">>)
    IN IF f.strength \notin Strengths
       THEN Raise(f1, Err("ValueError", "Invalid strength", NoText, NoInfo))
       ELSE Return(f1, ToMnemonic(entropy, f.strength))

\* derive_wallet_from_mnemonic(mnemonic, account_index)
DeriveWalletStep(f) ==
    LET mnemonic == Get(f.mnemonic)
        f1 == Logged(f, <<"derive_wallet_from_mnemonic", "validate_mnemonic">>)
        f2 == Logged(f1, <<"Bip39SeedGenerator">>)
        f3 == Logged(f2, <<"Bip44.FromSeed", "PrivateKey", "from_key">>)
        key == KeyAt(Bip39Seed(mnemonic), WalkedPath(f.account_index))
        private_key_hex == HexKey(key, FALSE, 32, TRUE)
        account == Get(FromKey(private_key_hex))
    IN IF ~ValidateMnemonic(mnemonic)
         THEN Raise(f1, Err("ValueError", "Invalid mnemonic phrase", NoText, NoInfo))
       ELSE IF MnemoCheck(mnemonic) # Some(TRUE)
         THEN Raise(f2, Err("ValueError", "Invalid mnemonic checksum", NoText, NoInfo))
       ELSE Return([f3 EXCEPT !.private_key = Some(private_key_hex)],
                   [mnemonic |-> mnemonic, private_key |-> private_key_hex,
                    public_key |-> account.public_key, address |-> account.address,
                    bip44_path |-> ReportedPath(f.account_index)])

\* import_wallet_from_private_key(private_key)
ImportWalletStep(f) ==
    LET f1 == Logged(f, <<"import_wallet_from_private_key", "from_key">>)
        private_key == [Get(f.private_key) EXCEPT !.prefix = FALSE]
        account == FromKey(private_key)
    IN IF ~IsSome(account)
       THEN Raise(f1, Err("ValueError", "Invalid private key", NoText, NoInfo))
       ELSE Return(f1, [mnemonic |-> NotAvailable, private_key |-> private_key,
                        public_key |-> Get(account).public_key,
                        address |-> Get(account).address,
                        bip44_path |-> [kind |-> "N/A"]])

GenerateMnemonic(i, strength, entropy) ==
    /\ callers[i].pc = "idle"
    /\ callers' = [callers EXCEPT ![i] =
          GenerateMnemonicStep([Idle EXCEPT !.op = "generate_mnemonic",
                                       !.strength = strength], entropy)]
    /\ UNCHANGED <<chain, fr, lastStatus, cls, page, handler>>

ValidateMnemonicCall(i, mnemonic) ==
    /\ callers[i].pc = "idle"
    /\ callers' = [callers EXCEPT ![i] =
          LET f == Logged([Idle EXCEPT !.op = "validate_mnemonic",
                                       !.mnemonic = Some(mnemonic)],
                          <<"validate_mnemonic">>)
              r == ValidateMnemonicOutcome(mnemonic)
          IN IF IsSome(r) THEN Return(f, Get(r))
             ELSE Raise(f, Err("TypeError", "String value expected", NoText, NoInfo))]
    /\ UNCHANGED <<chain, fr, lastStatus, cls, page, handler>>

\* derive_wallet_from_mnemonic, called directly or through
\* BSCWallet.import_wallet_from_mnemonic
DeriveWallet(i, op, mnemonic, account_index) ==
    /\ callers[i].pc = "idle"
    /\ callers' = [callers EXCEPT ![i] =
          DeriveWalletStep([Idle EXCEPT !.op = op, !.mnemonic = Some(mnemonic),
                                                  !.account_index = account_index])]
    /\ UNCHANGED <<chain, fr, lastStatus, cls, page, handler>>

\* create_new_wallet(strength): generate_mnemonic, then the derivation of the
\* default account
CreateNewWallet(i, strength, entropy) ==
    /\ callers[i].pc = "idle"
    /\ callers' = [callers EXCEPT ![i] =
          LET g == GenerateMnemonicStep([Idle EXCEPT !.op = "create_new_wallet",
                                                     !.strength = strength], entropy)
          IN IF IsSome(g.error) THEN g
             ELSE DeriveWalletStep([g EXCEPT !.pc = "idle", !.result = None,
                                             !.mnemonic = g.result,
                                             !.account_index = DefaultAccountIndex])]
    /\ UNCHANGED <<chain, fr, lastStatus, cls, page, handler>>

\* private keys a caller can pass to the import: the keys of two derived
\* accounts with and without the 0x prefix, a key of 31 bytes, and a scalar
\* that is outside the range of the curve
ImportKeys ==
    LET scalars == {KeyAt(Bip39Seed(ToMnemonic(0, 128)), WalkedPath(a)) :
                       a \in AccountIndexes}
    IN {HexKey(k, p, 32, TRUE) : k \in scalars, p \in BOOLEAN}
       \cup {HexKey(k, p, 31, TRUE) : k \in scalars, p \in BOOLEAN}
       \cup {HexKey(k, FALSE, 32, FALSE) : k \in scalars}

ImportWalletFromPrivateKey(i, private_key) ==
    /\ callers[i].pc = "idle"
    /\ callers' = [callers EXCEPT ![i] =
          ImportWalletStep([Idle EXCEPT !.op = "import_wallet_from_private_key",
                                        !.private_key = Some(private_key)])]
    /\ UNCHANGED <<chain, fr, lastStatus, cls, page, handler>>

\* the caller takes the outcome of its wallet operation
WalletDone(i) ==
    /\ callers[i].pc = "done"
    /\ callers' = [callers EXCEPT ![i] = Idle]
    /\ UNCHANGED <<chain, fr, lastStatus, cls, page, handler>>

DeriveOps == {"derive_wallet_from_mnemonic", "import_wallet_from_mnemonic"}

NextWallet ==
    \E i \in Callers :
       \/ \E strength \in StrengthArgs, entropy \in 0..MaxEntropy :
             GenerateMnemonic(i, strength, entropy)
       \/ \E mnemonic \in Mnemonics : ValidateMnemonicCall(i, mnemonic)
       \/ \E op \in DeriveOps, mnemonic \in Mnemonics, account_index \in AccountIndexes :
             DeriveWallet(i, op, mnemonic, account_index)
       \/ \E strength \in StrengthArgs, entropy \in 0..MaxEntropy :
             CreateNewWallet(i, strength, entropy)
       \/ \E private_key \in ImportKeys : ImportWalletFromPrivateKey(i, private_key)
       \/ WalletDone(i)

\* the wallet operations use neither the chain nor the transfer handlers
InitWallet ==
    /\ chain = [balance |-> [a \in Accounts |-> 0], tokenBal |-> 0,
                decimals |-> TokenUnit, txCount |-> [a \in Accounts |-> 0],
                height |-> 0, mempool |-> {}, receipts |-> [h \in {} |-> 0]]
    /\ fr = Idle
    /\ lastStatus = [h \in {} |-> 0]
    /\ cls = NoClassified
    /\ page = FirstLoad
    /\ callers = [i \in Callers |-> Idle]
    /\ handler = NewHandler(CHOOSE url \in RpcUrls : TRUE)

WalletSpec == InitWallet /\ [][NextWallet]_vars

----------------------------------------------------------------------------
(* The token amount as a fraction: create_token_transfer_transaction turns
   the float `amount` into base units, get_token_balance turns base units
   into a float.  A float is m * 2^e with |m| < 2^AmountBits (53 bits in an
   IEEE double); every operation is exact and then rounded to the nearest
   float, ties to even, as the hardware does. *)

RECURSIVE RoundTo(_, _, _)
\* the float nearest to (n / d) * 2^e, for d > 0
RoundTo(n, d, e) ==
    IF n = 0 THEN [m |-> 0, e |-> 0]
    ELSE IF n < 0 THEN [RoundTo(-n, d, e) EXCEPT !.m = -@]
    ELSE IF n >= d * Pow2(AmountBits) THEN RoundTo(n, 2 * d, e + 1)
    ELSE IF n < d * Pow2(AmountBits - 1) THEN RoundTo(2 * n, d, e - 1)
    ELSE LET q == n \div d
             r == n % d
             m == IF 2 * r > d \/ (2 * r = d /\ q % 2 = 1) THEN q + 1 ELSE q
         IN IF m = Pow2(AmountBits) THEN [m |-> m \div 2, e |-> e + 1]
            ELSE [m |-> m, e |-> e]

\* (faulty variant) the product is rounded to the nearest integer
AmountRawRounded(amount, decimals) ==
    LET p == RoundTo(amount.m * RoundTo(Pow10(decimals), 1, 0).m, 1,
                     amount.e + RoundTo(Pow10(decimals), 1, 0).e)
    IN IF p.e >= 0 THEN p.m * Pow2(p.e)
       ELSE (2 * p.m + Pow2(-p.e)) \div (2 * Pow2(-p.e))

\* int(amount * (10 ** decimals)): 10 ** decimals becomes a float, the
\* product is rounded to a float, int() drops its fraction
AmountRawOfFloat(amount, decimals) ==
    LET ten == RoundTo(Pow10(decimals), 1, 0)
        p == RoundTo(amount.m * ten.m, 1, amount.e + ten.e)
    IN IF p.e >= 0 THEN p.m * Pow2(p.e)
       ELSE IF p.m >= 0 THEN p.m \div Pow2(-p.e)
       ELSE -((-p.m) \div Pow2(-p.e))

\* balance_raw / (10 ** decimals): the quotient of two integers as a float
BalanceFormatted(balance_raw, decimals) == RoundTo(balance_raw, Pow10(decimals), 0)

(* The caller writes the amount as the decimal units / 10^places and passes
   the float nearest to it. *)
InitConvert ==
    /\ chain = [balance |-> [a \in Accounts |-> 0], tokenBal |-> 0,
                decimals |-> TokenUnit, txCount |-> [a \in Accounts |-> 0],
                height |-> 0, mempool |-> {}, receipts |-> [h \in {} |-> 0]]
    /\ \E units \in -1..MaxUnits, places \in 0..MaxDecimals, decimals \in 0..MaxDecimals :
          fr = [Idle EXCEPT !.pc = "convert",
                            !.op = "create_token_transfer_transaction",
                            !.amount = [units |-> units, places |-> places,
                                        float |-> RoundTo(units, Pow10(places), 0)],
                            !.decimals = Some(decimals)]
    /\ lastStatus = [h \in {} |-> 0]
    /\ cls = NoClassified
    /\ page = FirstLoad
    /\ callers = [i \in Callers |-> Idle]
    /\ handler = NewHandler(CHOOSE url \in RpcUrls : TRUE)

\* create_token_transfer_transaction: amount_raw, and the encoding of the
\* call, which refuses a negative uint256
ConvertAmount ==
    /\ fr.pc = "convert"
    /\ LET amount_raw == AmountRawOfFloat(fr.amount.float, Get(fr.decimals))
       IN fr' = IF amount_raw < 0
                THEN Raise(fr, Err("ValidationError", "uint256 out of range",
                                   NoText, NoInfo))
                ELSE [fr EXCEPT !.pc = "format", !.balRead = Some(amount_raw)]
    /\ UNCHANGED <<chain, lastStatus, cls, page, callers, handler>>

\* get_token_balance of an account that holds exactly the amount sent
FormatBalance ==
    /\ fr.pc = "format"
    /\ fr' = Return(fr, [balance_raw |-> Get(fr.balRead),
                         balance_formatted |->
                            BalanceFormatted(Get(fr.balRead), Get(fr.decimals)),
                         decimals |-> Get(fr.decimals)])
    /\ UNCHANGED <<chain, lastStatus, cls, page, callers, handler>>

NextConvert == ConvertAmount \/ FormatBalance

ConvertSpec == InitConvert /\ [][NextConvert]_vars

----------------------------------------------------------------------------
(* BSCWallet.get_all_balances: the BNB balance and the token balances of a
   wallet.  lookups lists the token lookups of the call in order: the key the
   balance is reported under, the address queried and whether the lookup
   returned. *)

\* config.SAMPLE_TOKENS, by name; the addresses are addresses of the model
SAMPLE_TOKENS ==
    <<<<"USDT", TokenContract>>, <<"BUSD", Recipient>>, <<"IVP", Sender2>>>>

WalletAddresses == {Sender, "notanaddress"}

\* addresses a caller lists: get_all_balances does not look at them
ListedTokens == {TokenContract, Recipient, "notanaddress"}

\* token_addresses: not given (None), or a list
TokenLists ==
    {None} \cup {Some(l) : l \in UNION {[1..n -> ListedTokens] : n \in 0..MaxTokens}}

\* the most lookups one call makes
MaxLookups == IF MaxTokens > Len(SAMPLE_TOKENS) THEN MaxTokens ELSE Len(SAMPLE_TOKENS)

\* get_bnb_balance(wallet_address): the dictionary, or nothing when it raises
GetBnbBalance(address, rpcOk) ==
    IF IsAddress(address) THEN GetBalance(ToChecksumAddress(address), rpcOk) ELSE None

\* get_token_balance(token_address, wallet_address): the dictionary, or
\* nothing when it raises
WalletTokenBalance(token_address, wallet_address, decOk, balOk) ==
    LET bal == GetTokenBalance(decOk, balOk)
    IN IF IsAddress(token_address) /\ IsAddress(wallet_address) /\ IsSome(bal)
       THEN Some([wallet_address |-> ToChecksumAddress(wallet_address),
                  token_address |-> ToChecksumAddress(token_address),
                  balance_raw |-> Get(bal).balance_raw,
                  decimals |-> Get(bal).decimals])
       ELSE None

\* if token_addresses:
ListTruthy(token_addresses) ==
    IsSome(token_addresses) /\ Len(Get(token_addresses)) > 0

\* the lookups to make, as <<key, address>>: the listed addresses under
\* themselves, else the sample tokens under their names
TokenQueue(token_addresses) ==
    IF ListTruthy(token_addresses)
    THEN [i \in 1..Len(Get(token_addresses)) |->
             <<Get(token_addresses)[i], Get(token_addresses)[i]>>]
    ELSE SAMPLE_TOKENS

\* (faulty variant) a failed lookup ends the call
OnLookupErrorRaise(f) == Raise(f, RpcDown)

\* except Exception as e: logger.warning(...)
OnLookupError(f) == Logged(f, <<"warning">>)

\* result["token_balances"][key] = token_balance
WithTokenBalance(f, key, token_balance) ==
    [f EXCEPT !.result = Some([Get(@) EXCEPT
                 !.token_balances = (key :> token_balance) @@ @])]

(* the loop over the tokens: the k-th lookup is answered by balOks[k] *)
RECURSIVE QueryTokens(_, _, _, _, _)
QueryTokens(f, todo, k, decOk, balOks) ==
    IF todo = <<>> \/ IsSome(f.error) THEN f
    ELSE LET key == Head(todo)[1]
             address == Head(todo)[2]
             got == WalletTokenBalance(address, f.wallet_address, decOk, balOks[k])
             f1 == Logged([f EXCEPT !.lookups =
                             Append(@, [key |-> key, address |-> address,
                                        ok |-> IsSome(got)])],
                          <<"get_token_balance">>)
             f2 == IF IsSome(got) THEN WithTokenBalance(f1, key, Get(got))
                   ELSE OnLookupError(f1)
         IN QueryTokens(f2, Tail(todo), k + 1, decOk, balOks)

GetAllBalancesStep(f, rpcOk, decOk, balOks) ==
    LET result == [wallet_address |-> f.wallet_address, bnb_balance |-> None,
                   token_balances |-> [t \in {} |-> 0]]
        f1 == Logged([f EXCEPT !.result = Some(result)],
                     <<"get_all_balances", "get_bnb_balance">>)
        bnb == GetBnbBalance(f.wallet_address, rpcOk)
        f2 == IF IsSome(bnb)
              THEN [f1 EXCEPT !.result = Some([Get(@) EXCEPT !.bnb_balance = bnb])]
              ELSE OnLookupError(f1)
        f3 == QueryTokens(f2, TokenQueue(f.token_addresses), 1, decOk, balOks)
    IN IF IsSome(f3.error) THEN f3 ELSE Return(f3, Get(f3.result))

GetAllBalances(wallet_address, token_addresses, rpcOk, decOk, balOks) ==
    /\ fr.pc = "idle"
    /\ fr' = GetAllBalancesStep(
                 [Idle EXCEPT !.op = "get_all_balances",
                              !.wallet_address = wallet_address,
                              !.token_addresses = token_addresses],
                 rpcOk, decOk, balOks)
    /\ handler' = HandlerAfterCall(handler)
    /\ UNCHANGED <<chain, lastStatus, cls, page, callers>>

NextBalances ==
    \/ \E wallet_address \in WalletAddresses, token_addresses \in TokenLists,
          rpcOk, decOk \in BOOLEAN, balOks \in [1..MaxLookups -> BOOLEAN] :
          GetAllBalances(wallet_address, token_addresses, rpcOk, decOk, balOks)
    \/ Done

BalancesSpec == Init /\ [][NextBalances]_vars

----------------------------------------------------------------------------
(* The Send BNB page (streamlit_app.py, main).  Every touch of a widget runs
   the script once from the top; a button is True in the run its press
   started.  A touch during a run asks for a new run: the run in progress is
   ended at its next Streamlit call by a script-control exception, which is a
   BaseException, and the new run starts with the touched widget. *)

\* what the user can have typed into the inputs of the page
PageKeys == {"", "hexA"}
PageAddresses == {"", Recipient, RecipientLower}
PageAmounts == {0, 1, 2}

\* the widgets a user touches while a run is going on
Widgets == {"Confirm", "Cancel", "other"}

\* st.session_state.bnb_tx_data = {...}; bnb_confirm_pending = True
StoreTxData(private_key, to_address, amount, wait_confirmation) ==
    [bnb_confirm_pending |-> TRUE,
     bnb_tx_data |-> Some([private_key |-> private_key, to_address |-> to_address,
                           amount |-> amount,
                           wait_confirmation |-> wait_confirmation])]

\* st.session_state.bnb_confirm_pending = False; bnb_tx_data = {}
ResetConfirmation(session_state) ==
    [session_state EXCEPT !.bnb_confirm_pending = FALSE, !.bnb_tx_data = None]

\* if st.session_state.bnb_confirm_pending: the dialog with Confirm and Cancel
Rendered(session_state) ==
    IF session_state.bnb_confirm_pending THEN "dialog" ELSE "form"

\* the arguments of bsc_wallet.send_bnb(...), read from the stored data
SendBnbArgs(session_state) == session_state.bnb_tx_data

(* the run of a press of Send BNB: the inputs are stored when all of them are
   filled in and the amount is positive *)
PressSend(private_key, to_address, amount, wait_confirmation) ==
    /\ page.running = None /\ page.requested = None
    /\ page.stored < MaxSends
    /\ page' = IF private_key # "" /\ to_address # "" /\ amount > 0
               THEN [page EXCEPT
                       !.session_state = StoreTxData(private_key, to_address,
                                                     amount, wait_confirmation),
                       !.shown = "dialog", !.stored = @ + 1]
               ELSE [page EXCEPT !.shown = Rendered(page.session_state)]
    /\ UNCHANGED <<chain, fr, lastStatus, cls, callers, handler>>

\* the script reaches send_bnb in a run in which Confirm is True and the
\* dialog is shown
ConfirmRun(p) ==
    [p EXCEPT !.running = SendBnbArgs(p.session_state), !.sent = @ + 1,
              !.shown = "spinner", !.requested = None]

(* the run of a press of Confirm Transaction, up to the call of send_bnb; the
   button is on the page when the last run showed the dialog *)
PressConfirm ==
    /\ page.running = None /\ page.requested = None
    /\ page.shown = "dialog"
    /\ page.sent < MaxSends
    /\ page' = ConfirmRun(page)
    /\ UNCHANGED <<chain, fr, lastStatus, cls, callers, handler>>

\* the run of a press of Cancel
PressCancel ==
    /\ page.running = None /\ page.requested = None
    /\ page.shown = "dialog"
    /\ page' = [page EXCEPT !.session_state = ResetConfirmation(@),
                            !.shown = "form"]
    /\ UNCHANGED <<chain, fr, lastStatus, cls, callers, handler>>

\* the user touches a widget while send_bnb is running
TouchWhileSending(widget) ==
    /\ page.running # None /\ page.requested = None
    /\ page' = [page EXCEPT !.requested = Some(widget)]
    /\ UNCHANGED <<chain, fr, lastStatus, cls, callers, handler>>

(* send_bnb returns or raises.  The next statement is st.success or
   st.error: with no new run asked for, the script goes on to the reset of the
   confirmation state; else the run ends there, before the reset. *)
SendBnbEnds(ok) ==
    /\ page.running # None
    /\ page' = IF page.requested = None
               THEN [page EXCEPT !.running = None,
                                 !.shown = IF ok THEN "receipt" ELSE "error",
                                 !.session_state = ResetConfirmation(@)]
               ELSE [page EXCEPT !.running = None]
    /\ UNCHANGED <<chain, fr, lastStatus, cls, callers, handler>>

(* the run the user asked for during the call: Confirm calls send_bnb when the
   dialog is still pending, Cancel resets, any other widget shows the page *)
RequestedRun ==
    /\ page.running = None /\ page.requested # None
    /\ LET widget == Get(page.requested)
           pending == page.session_state.bnb_confirm_pending
       IN page' =
            IF widget = "Confirm" /\ pending /\ page.sent < MaxSends
              THEN ConfirmRun(page)
            ELSE IF widget = "Cancel" /\ pending
              THEN [page EXCEPT !.session_state = ResetConfirmation(@),
                                !.shown = "form", !.requested = None]
            ELSE [page EXCEPT !.shown = Rendered(page.session_state),
                              !.requested = None]
    /\ UNCHANGED <<chain, fr, lastStatus, cls, callers, handler>>

NextDash ==
    \/ \E private_key \in PageKeys, to_address \in PageAddresses,
          amount \in PageAmounts, wait_confirmation \in BOOLEAN :
          PressSend(private_key, to_address, amount, wait_confirmation)
    \/ PressConfirm
    \/ PressCancel
    \/ \E widget \in Widgets : TouchWhileSending(widget)
    \/ \E ok \in BOOLEAN : SendBnbEnds(ok)
    \/ RequestedRun

DashSpec == Init /\ [][NextDash]_vars

----------------------------------------------------------------------------
(* Properties *)

InLog(name) == \E i \in 1..Len(fr.log) : fr.log[i] = name

IsSend == fr.op \in {"send_bnb", "send_token"}

Raised(kind) == IsSome(fr.error) /\ Get(fr.error).kind = kind

TimedOut == IsSome(fr.error) /\ Get(fr.error).type = "TimeoutError"

\* the finished operation returned a dictionary that has a status
ReturnedStatus ==
    fr.pc = "done" /\ IsSome(fr.result) /\ "status" \in DOMAIN Get(fr.result)

\* C1: a send_bnb whose amount is greater than the balance the gate read ends
\* with the insufficient-balance error, and nothing was built, signed or
\* broadcast in it (no create_transaction, sign_transaction,
\* broadcast_transaction, getTransactionCount or sendRawTransaction).
C1_BalanceGate ==
    (fr.op = "send_bnb" /\ IsSome(fr.balRead) /\ fr.amount > Get(fr.balRead)) =>
        /\ fr.pc = "done"
        /\ Raised("Insufficient balance")
        /\ \A name \in {"create_transaction", "sign_transaction",
                        "broadcast_transaction", "getGasPrice",
                        "getTransactionCount", "sendRawTransaction"} : ~InLog(name)
        /\ fr.tx = None /\ fr.signed = None /\ fr.hash = None

C1_Witness ==
    /\ fr.op = "send_bnb" /\ fr.pc = "done"
    /\ IsSome(fr.balRead) /\ Get(fr.balRead) > 0 /\ fr.amount > Get(fr.balRead)
    /\ Raised("Insufficient balance")

\* the four steps of a transfer, in the order of the lifecycle
Lifecycle ==
    IF fr.op = "send_bnb"
    THEN <<"create_transaction", "sign_transaction", "broadcast_transaction",
           "wait_for_confirmation">>
    ELSE <<"create_token_transfer_transaction", "sign_transaction",
           "broadcast_transaction", "wait_for_confirmation">>

\* the steps of the lifecycle the operation entered, in the order it entered them
StepsEntered ==
    SelectSeq(fr.log, LAMBDA name : \E i \in 1..4 : Lifecycle[i] = name)

IsPrefix(a, b) == Len(a) <= Len(b) /\ \A i \in 1..Len(a) : a[i] = b[i]

\* C2: a transfer enters build, sign, broadcast, watch in this order, each
\* after the one before it succeeded (sign with a built transaction,
\* broadcast with a signed one, the watch and every receipt lookup with the
\* hash the broadcast returned for a transaction the node took), and a step
\* that raises ends the call.
C2_LifecycleOrder ==
    IsSend =>
        /\ IsPrefix(StepsEntered, Lifecycle)
        /\ Len(StepsEntered) >= 2 => IsSome(fr.tx)
        /\ Len(StepsEntered) >= 3 => IsSome(fr.signed)
        /\ InLog("sendRawTransaction") => IsSome(fr.signed)
        /\ Len(StepsEntered) >= 4 =>
              /\ IsSome(fr.sent) /\ IsSome(fr.hash)
              /\ Get(fr.hash) = TxHash(Get(fr.signed))
              /\ Get(fr.hash) \in chain.mempool
        /\ InLog("getTransactionReceipt") => Len(StepsEntered) = 4
        /\ IsSome(fr.error) => fr.pc = "done"

C2_Witness ==
    /\ fr.op = "send_bnb" /\ ReturnedStatus
    /\ StepsEntered = Lifecycle
    /\ InLog("getTransactionReceipt")

\* the watcher raised its timeout: where the clock stood
C3_Deadline ==
    (fr.op = "wait" /\ fr.pc = "done") =>
        /\ TimedOut
        /\ fr.elapsed >= fr.timeout
        /\ fr.timeout > 0 => fr.polled
        /\ fr.polled => /\ fr.pollStart < fr.timeout
                        /\ fr.elapsed = fr.pollStart + fr.lookup + POLL_INTERVAL
        /\ ~fr.polled => fr.elapsed = 0

\* C3 (as amended): against a receipt source that never returns a receipt,
\* wait_for_confirmation always ends, and ends by raising the timeout; it
\* raises no earlier than T seconds after the start, its last lookup started
\* before T and it raises one poll interval after that lookup ended (so no
\* later than T + 2 s + the duration of the last lookup), and with T > 0 it
\* has polled at least once.
C3_ConfirmationTimeout ==
    /\ []C3_Deadline
    /\ (fr.pc = "watch") ~> (fr.pc = "done")

\* C3 as stated: the timeout is raised no later than T plus one poll interval
C3_AsStated ==
    (fr.op = "wait" /\ fr.pc = "done") =>
        /\ TimedOut
        /\ fr.elapsed >= fr.timeout
        /\ fr.elapsed <= fr.timeout + POLL_INTERVAL
        /\ fr.timeout > 0 => fr.polled

C3_Witness ==
    /\ fr.op = "wait" /\ fr.pc = "done" /\ TimedOut
    /\ fr.timeout = 1 /\ fr.polled /\ fr.elapsed >= 1

\* C4: before the deadline a step of the watcher either found no receipt,
\* and then the watch goes on without an error after sleeping one interval,
\* or found the receipt, and then the watch returns that receipt's result.
C4_TransientPolls ==
    [][(fr.pc = "watch" /\ LoopCond(fr.elapsed, fr.timeout) /\ fr' # fr) =>
          \/ /\ fr'.pc = "watch" /\ fr'.polled
             /\ fr'.error = None /\ fr'.result = None /\ fr'.receipt = None
             /\ fr'.elapsed >= fr.elapsed + POLL_INTERVAL
          \/ /\ fr'.pc = "done" /\ fr'.error = None
             /\ HasReceipt(Get(fr.hash))
             /\ fr'.receipt = Some(chain.receipts[Get(fr.hash)])
             /\ IsSome(fr'.result)
             /\ Get(fr'.result)["status"] = StatusOf(chain.receipts[Get(fr.hash)])
      ]_vars

\* a watch that found nothing at first and the receipt at a later poll
C4_Witness ==
    /\ fr.op = "wait" /\ ReturnedStatus
    /\ fr.pollStart >= POLL_INTERVAL
    /\ fr.pollStart < fr.timeout

\* what C5 says of the result, but for the bound on the elapsed time
C5_Reflects(r, rc) ==
    /\ r["tx_hash"] = Get(fr.hash)
    /\ r["status"] \in {"Success", "Failed"}
    /\ r["status"] = "Success" <=> rc.status = 1
    /\ r["gas_used"] = rc.gasUsed
    /\ r["block_number"] = rc.blockNumber
    /\ r["confirmation_time"] >= 0

\* C5 (as amended): a result of the watcher carries the watched hash, Success
\* exactly when the receipt's status bit is 1 and Failed otherwise, the
\* gasUsed and blockNumber of that receipt, and an elapsed time that is not
\* negative and smaller than the timeout plus the duration of the lookup that
\* found the receipt.
C5_ResultReflectsReceipt ==
    (fr.op # "status" /\ ReturnedStatus) =>
        /\ HasReceipt(Get(fr.hash))
        /\ fr.receipt = Some(chain.receipts[Get(fr.hash)])
        /\ C5_Reflects(Get(fr.result), chain.receipts[Get(fr.hash)])
        /\ Get(fr.result)["confirmation_time"] < fr.timeout + fr.lookup

\* C5 as stated: the elapsed time is smaller than the timeout plus one poll interval
C5_AsStated ==
    (fr.op # "status" /\ ReturnedStatus) =>
        /\ HasReceipt(Get(fr.hash))
        /\ C5_Reflects(Get(fr.result), chain.receipts[Get(fr.hash)])
        /\ Get(fr.result)["confirmation_time"] < fr.timeout + POLL_INTERVAL

\* a reverted transaction reported by the watcher
C5_Witness ==
    /\ fr.op # "status" /\ ReturnedStatus
    /\ Get(fr.result)["status"] = "Failed"
    /\ Get(fr.receipt).status = 0

\* C6: when a transfer was broadcast and the wait timed out, the outcome
\* handed to the caller identifies the hash of the broadcast transaction.
C6_TimeoutKeepsHash ==
    (IsSend /\ fr.pc = "done" /\ TimedOut) =>
        /\ "tx_hash" \in DOMAIN Get(fr.error).info
        /\ Get(fr.error).info["tx_hash"] = Get(fr.hash)

\* C7: once a status query has reported Success or Failed for a hash, every
\* later query for that hash reports the same status.
C7_StatusNeverReverts ==
    (fr.op = "status" /\ fr.pc = "done" /\ Get(fr.hash) \in DOMAIN lastStatus) =>
        Get(fr.result)["status"] = lastStatus[Get(fr.hash)]

\* C8: wait_for_confirmation ends with a result of status Success or Failed
\* or with the timeout error, and a result of status Not Found or Pending
\* comes from get_transaction_status only.
C8_WatcherNeverNotFound ==
    /\ (fr.op = "wait" /\ fr.pc = "done") =>
          \/ ReturnedStatus /\ Get(fr.result)["status"] \in {"Success", "Failed"}
          \/ fr.result = None /\ TimedOut
    /\ (ReturnedStatus /\ Get(fr.result)["status"] \in {"Not Found", "Pending"}) =>
          fr.op = "status"
    /\ (IsSend /\ fr.pc = "done" /\ InLog("wait_for_confirmation")) =>
          \/ ReturnedStatus /\ Get(fr.result)["status"] \in {"Success", "Failed"}
          \/ fr.result = None /\ TimedOut

\* a watch of a hash the chain does not know ends with the timeout
C8_Witness ==
    /\ fr.op = "wait" /\ fr.pc = "done" /\ TimedOut
    /\ Get(fr.hash) = UnknownHash

\* the phrase occurs in the text, whatever the letter case of the text
HasPhrase(t, phrase) ==
    \E i \in 0..(Len(t.words) - Len(phrase)) :
        \A j \in 1..Len(phrase) : t.words[i + j] = phrase[j]

\* the taxonomy of C9, first match first
C9_Kind(t) ==
    IF HasPhrase(t, <<"insufficient", "funds">>) THEN "Insufficient funds"
    ELSE IF HasPhrase(t, <<"nonce", "too", "low">>) THEN "Nonce too low"
    ELSE IF HasPhrase(t, <<"nonce", "too", "high">>) THEN "Nonce too high"
    ELSE IF HasPhrase(t, <<"gas", "price", "too", "low">>) THEN "Gas price too low"
    ELSE IF HasPhrase(t, <<"intrinsic", "gas", "too", "low">>) THEN "Gas limit too low"
    ELSE IF HasPhrase(t, <<"connection">>) \/ HasPhrase(t, <<"timeout">>)
      THEN "Network connection issue"
    ELSE "Transaction broadcast failed"

\* C9: for every error text of sendRawTransaction the native broadcaster
\* raises the one taxonomy error of the first phrase, in the order of the
\* claim, that the text contains in any letter case; the network error is a
\* ConnectionError, the others ValueErrors; and the catch-all carries the
\* original text.
C9_BroadcastClassification ==
    IsSome(cls.bnb) =>
        LET e == Get(cls.bnb) IN
        /\ e.kind = C9_Kind(cls.text)
        /\ e.type = IF e.kind = "Network connection issue"
                    THEN "ConnectionError" ELSE "ValueError"
        /\ e.kind = "Transaction broadcast failed" => e.text = cls.text

\* a text in capitals that holds two phrases: the earlier test wins
C9_Witness ==
    /\ IsSome(cls.bnb)
    /\ cls.text = Text(<<"timeout", "nonce", "too", "low">>, TRUE)
    /\ Get(cls.bnb).kind = "Nonce too low"

\* C10: when the submission of a token transfer fails, send_token raises the
\* taxonomy error the native broadcaster chooses for the same error text, and
\* never the collaborator's own exception.
C10_TokenBroadcastClassified ==
    (fr.op = "send_token" /\ fr.pc = "done" /\ IsSome(fr.rpcError)) =>
        /\ Get(fr.error).type # "RPCError"
        /\ Get(fr.error) = ClassifyBroadcastError(Get(fr.rpcError))

\* the operation builds an unsigned transaction in this step
Builds == fr.tx = None /\ IsSome(fr'.tx)

\* C11: every transaction a build produces (create_transaction and
\* create_token_transfer_transaction, called directly or by a send) has the
\* nonce getTransactionCount answers in that same build, the sender's count on
\* chain at that moment, whatever earlier builds read.
C11_FreshNonce ==
    [][Builds => Get(fr'.tx).nonce = chain.txCount[fr'.from]]_vars

\* a build after the sender's count moved on: an earlier one read 0, this one 1
C11_Witness ==
    /\ fr.op = "create_token_transfer_transaction" /\ fr.pc = "done"
    /\ IsSome(fr.result) /\ Get(fr.result).nonce = 1
    /\ chain.txCount[Sender] = 1

\* the hash of the transaction caller i signed
HashOf(i) == TxHash(Get(callers[i].signed))

\* caller i's transaction is in a block
Included(i) == IsSome(callers[i].signed) /\ HasReceipt(HashOf(i))

\* the two callers built their transactions with the same nonce
SameNonce ==
    /\ IsSome(callers[1].tx) /\ IsSome(callers[2].tx)
    /\ Get(callers[1].tx).nonce = Get(callers[2].tx).nonce

\* caller i's transfer ended by returning a result
Returned(i) == callers[i].pc = "done" /\ IsSome(callers[i].result)

\* caller i's transfer returned a confirmation
Confirmed(i) == Returned(i) /\ "status" \in DOMAIN Get(callers[i].result)

\* C12 (as amended): when two transfers of one sender were built with the
\* same nonce, at most one of the two transactions is included and at most one
\* of the two transfers returns a confirmation, and only for an included
\* transaction; a transfer whose transaction is not included ends with an
\* error if the node refused it or if it waited for the confirmation, and
\* returns the bare hash only if it did not wait.
C12_NonceRace ==
    SameNonce =>
        /\ (Included(1) /\ Included(2)) => HashOf(1) = HashOf(2)
        /\ ~(Confirmed(1) /\ Confirmed(2))
        /\ \A i \in Callers :
              /\ Confirmed(i) => Included(i)
              /\ (Returned(i) /\ ~Confirmed(i)) =>
                    ~callers[i].wait /\ DOMAIN Get(callers[i].result) =
                        {"tx_hash", "from_address", "to_address", "amount_bnb",
                         "explorer_url"}
              /\ (callers[i].pc = "done" /\ callers[i].wait /\ ~Included(i)) =>
                    IsSome(callers[i].error)

\* C12 as stated: one of the two transfers ends with an error
C12_AsStated ==
    SameNonce =>
        /\ (Included(1) /\ Included(2)) => HashOf(1) = HashOf(2)
        /\ (callers[1].pc = "done" /\ callers[2].pc = "done") =>
              \E i \in Callers : IsSome(callers[i].error)

\* both read the same nonce before either was broadcast; one transaction was
\* included and confirmed, the other transfer waited and ended with the timeout
C12_Witness ==
    /\ SameNonce
    /\ Confirmed(1) /\ Included(1)
    /\ callers[2].pc = "done" /\ IsSome(callers[2].hash) /\ ~Included(2)
    /\ IsSome(callers[2].error) /\ Get(callers[2].error).type = "TimeoutError"

\* the two callers hold transactions of the same nonce, neither one submitted
C12_BothReadFirst ==
    /\ SameNonce
    /\ \A i \in Callers : callers[i].pc \in {"sign", "broadcast"}

\* the value caller i's transaction moves, once it is built
ValueOf(i) == Get(callers[i].tx).value

\* the balance of caller i's account before either transfer was included
BalanceBefore(i) ==
    LET j == 3 - i IN
    chain.balance[PairSender(i)]
      + (IF Included(i) THEN ValueOf(i) + GasCost ELSE 0)
      - (IF Included(j) /\ callers[j].to = PairSender(i) THEN ValueOf(j) ELSE 0)

\* what caller i's transfer read and built comes from its own arguments and
\* its own account: the nonce is its sender's count, the transaction carries
\* its recipient and amount, and the balance its gate read is its account's
\* balance before the transfers, or that balance plus what the other transfer
\* paid in when the other transfer is addressed to it
C13_OwnAccount(i) ==
    LET f == callers[i]
        j == 3 - i
    IN /\ IsSome(f.tx) =>
             /\ Get(f.tx).nonce =
                   chain.txCount[PairSender(i)] - (IF Included(i) THEN 1 ELSE 0)
             /\ Get(f.tx).to = f.to /\ Get(f.tx).value = f.amount
       /\ IsSome(f.signed) => Get(f.signed).from = PairSender(i)
       /\ IsSome(f.balRead) =>
             \/ Get(f.balRead) = ToFloat(BalanceBefore(i))
             \/ /\ callers[j].to = PairSender(i) /\ IsSome(callers[j].tx)
                /\ Get(f.balRead) = ToFloat(BalanceBefore(i) + ValueOf(j))

NetworkCalls ==
    {"getBalance", "decimals", "balanceOf", "getGasPrice", "getTransactionCount",
     "sendRawTransaction", "getTransactionReceipt"}

\* C14: a send_bnb or send_token with an invalid recipient address or a
\* negative amount makes no call of the chain collaborator, and ends with the
\* validation error of that argument (or of the key).
C14_ValidationFirst ==
    (IsSend /\ (~IsAddress(fr.to) \/ fr.amount < 0)) =>
        /\ \A name \in NetworkCalls : ~InLog(name)
        /\ fr.pc = "done"
        /\ IsSome(fr.error)
        /\ Get(fr.error).kind \in
              {"Invalid private key", "Invalid to_address format",
               "Resulting wei value out of range", "uint256 out of range"}

\* C15: the insufficient-balance error of send_bnb carries the shortfall, the
\* requested amount minus the available balance, and it carries the funding
\* guidance (the faucets and the sender's address) exactly when the available
\* balance is zero.
C15_ShortfallAndGuidance ==
    (fr.op = "send_bnb" /\ Raised("Insufficient balance")) =>
        LET info == Get(fr.error).info IN
        /\ "shortfall" \in DOMAIN info
        /\ info["shortfall"] = fr.amount - Get(fr.balRead)
        /\ (Get(fr.balRead) = 0) <=> ({"faucets", "address"} \subseteq DOMAIN info)

\* C16: a transaction built without a gas_price argument carries the price
\* getGasPrice answered, or the configured default (20 gwei) when that call
\* failed, and the failed call does not fail the build (a build that ends
\* without a transaction after it failed on the count or on the amount); a
\* transaction built with a gas_price argument carries that price and
\* getGasPrice was not called.
C16_GasPriceFallback ==
    /\ IsSome(fr.tx) =>
          IF IsSome(fr.gas_price)
          THEN Get(fr.tx).gasPrice = Get(fr.gas_price) /\ ~InLog("getGasPrice")
          ELSE /\ InLog("getGasPrice")
               /\ Get(fr.tx).gasPrice =
                     IF InLog("warning") THEN DEFAULT_GAS_PRICE ELSE NodeGasPrice
    /\ (InLog("warning") /\ fr.tx = None) =>
          /\ fr.pc = "done" /\ InLog("getTransactionCount")
          /\ Get(fr.error).kind \in {"raw", "uint256 out of range"}

\* a direct build whose getGasPrice call failed returned a transaction at the default
C16_Witness ==
    /\ fr.op = "create_transaction" /\ fr.pc = "done"
    /\ InLog("warning") /\ IsSome(fr.result)
    /\ Get(fr.result).gasPrice = DEFAULT_GAS_PRICE

IsTokenOp == fr.op \in {"send_token", "create_token_transfer_transaction"}

\* C17: the decimals a token amount is scaled with in a token transaction,
\* and the decimals a token balance is formatted with, are the value the
\* contract's decimals() returns; no transaction is built with another value.
C17_DecimalsNeverAssumed ==
    /\ (IsTokenOp /\ IsSome(fr.tx)) => Get(fr.tx).data[3].e = chain.decimals
    /\ (IsTokenOp /\ IsSome(fr.decimals)) => Get(fr.decimals) = chain.decimals

\* C18: a transaction create_transaction built is addressed to the recipient
\* in checksummed form, moves the amount counted in wei (18 decimals), has the
\* gas limit 21000 and the chain id 97 whatever endpoint the handler was
\* constructed with, and has no call data.
C18_NativeShape ==
    (fr.op \in {"send_bnb", "create_transaction"} /\ IsSome(fr.tx)) =>
        LET tx == Get(fr.tx) IN
        /\ tx.to = Recipient /\ IsAddress(fr.to)
        /\ fr.amount >= 0 /\ tx.value = fr.amount
        /\ tx.gas = 21000 /\ tx.gas = DEFAULT_GAS_LIMIT
        /\ tx.chainId = 97 /\ tx.chainId = BSC_TESTNET_CHAIN_ID
        /\ tx.data = <<>>

\* a transaction built for a lower-case recipient by a handler of a custom endpoint
C18_Witness ==
    /\ fr.op = "create_transaction" /\ fr.pc = "done" /\ IsSome(fr.result)
    /\ fr.to = RecipientLower /\ Get(fr.result).to = Recipient
    /\ Get(fr.result).value > 0
    /\ handler.rpc_url = "custom"

\* the shape of a token transaction, its raw amount scaled by `decimals`
TokenShape(tx, decimals) ==
    /\ tx.to = TokenContract /\ tx.to # Recipient
    /\ tx.value = 0
    /\ tx.gas = 100000 /\ tx.gas = TOKEN_TRANSFER_GAS_LIMIT /\ tx.gas > DEFAULT_GAS_LIMIT
    /\ tx.chainId = 97
    /\ tx.data = <<"transfer", Recipient, [m |-> fr.amount, e |-> decimals]>>

\* C19: a transaction create_token_transfer_transaction built is addressed to
\* the token contract, moves no value, has the gas limit 100000 (more than
\* the 21000 of a native transfer) and the chain id 97, and its call data is
\* transfer(recipient, rawAmount) with the amount scaled by the decimals of
\* the token.
C19_TokenShape ==
    (IsTokenOp /\ IsSome(fr.tx)) => TokenShape(Get(fr.tx), chain.decimals)

\* the same shape, but for the decimals, which are the token's or the fallback's
C19_ShapeButDecimals ==
    (IsTokenOp /\ IsSome(fr.tx)) =>
        \E d \in {chain.decimals, DEFAULT_DECIMALS} : TokenShape(Get(fr.tx), d)

\* C20: a send_token whose amount is greater than the token balance its gate
\* read (balance_raw / 10^decimals) ends with the insufficient-token-balance
\* error, and no token transaction was built, signed or broadcast in it.
C20_TokenBalanceGate ==
    (/\ fr.op = "send_token" /\ IsSome(fr.balRead)
     /\ fr.amount > 0
     /\ ~GeScaled(Get(fr.balRead), fr.amount, Get(fr.decimals))) =>
        /\ fr.pc = "done"
        /\ Raised("Insufficient token balance")
        /\ \A name \in {"create_token_transfer_transaction", "sign_transaction",
                        "broadcast_transaction", "getGasPrice",
                        "getTransactionCount", "sendRawTransaction"} : ~InLog(name)
        /\ fr.tx = None /\ fr.signed = None /\ fr.hash = None

\* the gate stopped a transfer of more tokens than the sender holds
C20_Witness ==
    /\ fr.op = "send_token" /\ fr.pc = "done"
    /\ Raised("Insufficient token balance")
    /\ fr.amount = 1 /\ Get(fr.balRead) = 0
    /\ Get(fr.decimals) = chain.decimals

----------------------------------------------------------------------------
(* Wallet generation *)

\* caller i holds the wallet a derivation returned
Derived(i) ==
    /\ callers[i].pc = "done"
    /\ callers[i].op \in DeriveOps
    /\ IsSome(callers[i].result)

\* C21: for every account index, the private key a derivation returns is the
\* key at m/44'/60'/0'/0/{account index} of the mnemonic's seed, and the path
\* the wallet reports is the path that was walked to that key.
C21_DerivationPath ==
    \A i \in Callers :
       Derived(i) =>
          LET w == Get(callers[i].result)
              seed == Bip39Seed(Get(callers[i].mnemonic))
          IN /\ w.private_key.scalar = KeyAt(seed, Bip44Path(0, callers[i].account_index))
             /\ w.bip44_path.path = w.private_key.scalar.path

C23_InvalidMnemonicRejected ==
    \A i \in Callers :
       (/\ callers[i].pc = "done"
        /\ callers[i].op \in DeriveOps
        /\ ValidateMnemonicOutcome(Get(callers[i].mnemonic)) # Some(TRUE))
       => /\ callers[i].result = None
          /\ IsSome(callers[i].error)
          /\ Get(callers[i].error).kind = "Invalid mnemonic phrase"
          /\ callers[i].private_key = None
          /\ \A k \in 1..Len(callers[i].log) :
                callers[i].log[k] \notin {"Bip39SeedGenerator", "Bip44.FromSeed",
                                          "PrivateKey", "from_key"}

C23_Witness ==
    /\ callers[1].pc = "done" /\ callers[1].op = "import_wallet_from_mnemonic"
    /\ Get(callers[1].mnemonic) # NotAString
    /\ Len(Get(callers[1].mnemonic)) = 12
    /\ MnemoCheck(Get(callers[1].mnemonic)) = Some(FALSE)
    /\ IsSome(callers[1].error)
    /\ callers[2].pc = "done" /\ callers[2].op = "derive_wallet_from_mnemonic"
    /\ Get(callers[2].mnemonic) = NotAString
    /\ IsSome(callers[2].error)

\* C24: validate_mnemonic returns true or false for every input and never
\* raises; it returns false whenever the checksum routine raises.
C24_ValidateTotal ==
    \A i \in Callers :
       (callers[i].pc = "done" /\ callers[i].op = "validate_mnemonic")
       => /\ callers[i].error = None
          /\ IsSome(callers[i].result)
          /\ Get(callers[i].result) \in BOOLEAN
          /\ (MnemoCheck(Get(callers[i].mnemonic)) = None
                => Get(callers[i].result) = FALSE)

C24_Witness ==
    /\ callers[1].pc = "done" /\ callers[1].op = "validate_mnemonic"
    /\ MnemoCheck(Get(callers[1].mnemonic)) = None
    /\ callers[1].result = Some(FALSE)
    /\ callers[2].pc = "done" /\ callers[2].op = "validate_mnemonic"
    /\ callers[2].result = Some(TRUE)

\* C25: generate_mnemonic(strength) returns a mnemonic of
\* (strength + strength/32)/11 words for the strengths 128, 160, 192, 224 and
\* 256 (12, 15, 18, 21 and 24 words), and ends with the invalid-strength error
\* and no mnemonic for every other strength.
C25_MnemonicLength ==
    \A i \in Callers :
       (callers[i].pc = "done" /\ callers[i].op = "generate_mnemonic")
       => LET s == callers[i].strength
          IN IF s \in {128, 160, 192, 224, 256}
             THEN /\ callers[i].error = None
                  /\ IsSome(callers[i].result)
                  /\ 11 * Len(Get(callers[i].result)) = s + s \div 32
                  /\ (s = 128 => Len(Get(callers[i].result)) = 12)
                  /\ (s = 256 => Len(Get(callers[i].result)) = 24)
             ELSE /\ callers[i].result = None
                  /\ IsSome(callers[i].error)
                  /\ Get(callers[i].error).kind = "Invalid strength"

C25_Witness ==
    /\ callers[1].pc = "done" /\ callers[1].op = "generate_mnemonic"
    /\ callers[1].strength = 256 /\ IsSome(callers[1].result)
    /\ callers[2].pc = "done" /\ callers[2].op = "generate_mnemonic"
    /\ callers[2].strength = 129 /\ IsSome(callers[2].error)

\* caller i holds the wallet create_new_wallet returned
Created(i) ==
    /\ callers[i].pc = "done"
    /\ callers[i].op = "create_new_wallet"
    /\ IsSome(callers[i].result)

\* C26: the mnemonic of every wallet create_new_wallet returns passes
\* validate_mnemonic, and the derivation of that mnemonic at index 0 returns
\* the address and the private key of the created wallet.
C26_CreateThenRecover ==
    \A i \in Callers :
       Created(i) =>
          /\ ValidateMnemonicOutcome(Get(callers[i].result).mnemonic) = Some(TRUE)
          /\ \A j \in Callers :
                (/\ callers[j].pc = "done" /\ callers[j].op \in DeriveOps
                 /\ callers[j].mnemonic = Some(Get(callers[i].result).mnemonic)
                 /\ callers[j].account_index = 0)
                => /\ IsSome(callers[j].result)
                   /\ Get(callers[j].result).address = Get(callers[i].result).address
                   /\ Get(callers[j].result).private_key
                         = Get(callers[i].result).private_key

C26_Witness ==
    /\ Created(1)
    /\ callers[1].strength = 128
    /\ Len(Get(callers[1].result).mnemonic) = 12
    /\ Derived(2)
    /\ callers[2].mnemonic = Some(Get(callers[1].result).mnemonic)
    /\ callers[2].account_index = 0

\* caller i has finished an import of a private key
Imported(i) ==
    callers[i].pc = "done" /\ callers[i].op = "import_wallet_from_private_key"

\* C27: an import of a key of 32 bytes that is a valid scalar returns the
\* address and the public key of that scalar, the same with and without the
\* 0x prefix and the same address a derivation reports for that key, in a
\* wallet that carries no mnemonic and no derivation path; an import of any
\* other key ends with the invalid-private-key error.
C27_PrivateKeyImport ==
    \A i \in Callers :
       Imported(i) =>
          LET k == Get(callers[i].private_key)
          IN IF k.bytes = 32 /\ k.inRange
             THEN /\ IsSome(callers[i].result)
                  /\ LET w == Get(callers[i].result)
                     IN /\ w.address = <<"address", k.scalar>>
                        /\ w.public_key = <<"public_key", k.scalar>>
                        /\ ValidateMnemonicOutcome(w.mnemonic) = Some(FALSE)
                        /\ w.bip44_path.kind # "path"
                        /\ \A j \in Callers :
                              /\ (Imported(j) /\ IsSome(callers[j].result)
                                  /\ Get(callers[j].private_key).scalar = k.scalar)
                                 => /\ Get(callers[j].result).address = w.address
                                    /\ Get(callers[j].result).public_key = w.public_key
                              /\ (Derived(j)
                                  /\ Get(callers[j].result).private_key.scalar = k.scalar)
                                 => Get(callers[j].result).address = w.address
             ELSE /\ callers[i].result = None
                  /\ IsSome(callers[i].error)
                  /\ Get(callers[i].error).kind = "Invalid private key"

C27_Witness ==
    /\ Imported(1) /\ Imported(2)
    /\ IsSome(callers[1].result) /\ IsSome(callers[2].result)
    /\ Get(callers[1].private_key).prefix /\ ~Get(callers[2].private_key).prefix
    /\ Get(callers[1].private_key).scalar = Get(callers[2].private_key).scalar

\* an import of a key a derivation returned, and an import that is refused
C27_WitnessDerived ==
    /\ Imported(1) /\ IsSome(callers[1].result)
    /\ Derived(2)
    /\ Get(callers[2].result).private_key.scalar = Get(callers[1].private_key).scalar

----------------------------------------------------------------------------
(* Amount conversions *)

\* the amount the caller wrote is a whole number of base units
WholeUnits ==
    (fr.amount.units * Pow10(Get(fr.decimals))) % Pow10(fr.amount.places) = 0

\* that number of base units
ExactUnits ==
    (fr.amount.units * Pow10(Get(fr.decimals))) \div Pow10(fr.amount.places)

\* C28: for an amount that is not negative and is a whole number of base
\* units, the conversion to base units followed by the conversion back
\* yields the amount again.
C28_RoundTrip ==
    (fr.amount.units >= 0 /\ WholeUnits /\ fr.pc \in {"format", "done"})
    => /\ fr.error = None
       /\ (fr.pc = "done"
             => Get(fr.result).balance_formatted = fr.amount.float)

\* an amount of a fraction of a token that does come back
C28_SomeRoundTrips ==
    /\ fr.pc = "done" /\ IsSome(fr.result)
    /\ fr.amount.units > 0 /\ WholeUnits
    /\ fr.amount.places = MaxDecimals /\ Get(fr.decimals) = MaxDecimals
    /\ fr.amount.units % 10 # 0
    /\ Get(fr.result).balance_formatted = fr.amount.float

\* C29: the conversion yields exactly amount * 10^decimals base units, and
\* ends with the invalid-amount error, without a base-unit value, when the
\* amount is negative or is not a whole number of base units.
C29_ExactBaseUnits ==
    fr.pc \in {"format", "done"}
    => IF fr.amount.units < 0 \/ ~WholeUnits
       THEN IsSome(fr.error) /\ fr.balRead = None
       ELSE fr.error = None /\ fr.balRead = Some(ExactUnits)

\* the cases in which the conversion is exact: whole tokens, decimals() = 0
C29_ExactForWholeTokens ==
    (/\ fr.pc \in {"format", "done"}
     /\ fr.amount.units >= 0 /\ fr.amount.places = 0 /\ Get(fr.decimals) = 0)
    => fr.balRead = Some(fr.amount.units)

----------------------------------------------------------------------------
(* The private key *)

\* a transfer that was given a private key has returned or raised
KeyCallEnded ==
    fr.pc = "done" /\ fr.op \in {"send_bnb", "send_token"}

\* C30: when send_bnb or send_token, and the sign_transaction it calls, return
\* or raise, the handler holds nothing but its endpoint and chain id, the
\* signed transaction, the returned result and the raised error carry no
\* private key, and the frame that held the key is gone once the caller has
\* the outcome.
C30_KeyNotRetained ==
    /\ DOMAIN handler = {"rpc_url", "chain_id"}
    /\ handler.rpc_url \notin Keys
    /\ fr.pc = "idle" => fr.key \notin Keys
    /\ KeyCallEnded =>
          /\ IsSome(fr.signed) => "private_key" \notin DOMAIN Get(fr.signed)
          /\ IsSome(fr.result) =>
                /\ "private_key" \notin DOMAIN Get(fr.result)
                /\ Get(fr.result).from_address \notin Keys
                /\ Get(fr.result).to_address \notin Keys
          /\ IsSome(fr.error) =>
                /\ Get(fr.error).kind \notin Keys
                /\ \A k \in 1..Len(Get(fr.error).text.words) :
                      Get(fr.error).text.words[k] \notin Keys
                /\ "private_key" \notin DOMAIN Get(fr.error).info

\* a transfer that signed with the key and then failed, and its frame
C30_Witness ==
    /\ KeyCallEnded
    /\ fr.key = "0xhexA"
    /\ InLog("sign_transaction") /\ InLog("sendRawTransaction")
    /\ IsSome(fr.error)

\* a transfer that returned its result
C30_WitnessReturned ==
    /\ KeyCallEnded /\ fr.op = "send_token" /\ fr.key = "hexA"
    /\ IsSome(fr.result)

----------------------------------------------------------------------------
(* The one-shot status query, the send requests and their results *)

\* a get_transaction_status call has ended
StatusEnded == fr.op = "status" /\ fr.pc = "done"

\* the statuses of the query follow the two lookups
C31_StatusFollowsLookups ==
    LET h == Get(fr.hash)
        r == Get(fr.result)
    IN /\ fr.error = None /\ IsSome(fr.result)
       /\ r["tx_hash"] = h
       /\ r["status"] \in {"Success", "Failed", "Pending", "Not Found"}
       /\ r["status"] \in {"Success", "Failed"} <=> IsSome(fr.receipt)
       /\ IsSome(fr.receipt) =>
             /\ HasReceipt(h) /\ Get(fr.receipt) = chain.receipts[h]
             /\ r["status"] = "Success" <=> Get(fr.receipt).status = 1
             /\ r["block_number"] = Some(Get(fr.receipt).blockNumber)
             /\ r["gas_used"] = Get(fr.receipt).gasUsed
             /\ ~InLog("getTransaction")
       /\ ~IsSome(fr.receipt) =>
             /\ InLog("getTransaction")
             /\ "gas_used" \notin DOMAIN r
             /\ r["status"] = "Pending" => h \in chain.mempool
             /\ h \notin chain.mempool => r["status"] = "Not Found"
             /\ r["status"] = "Not Found" => "block_number" \notin DOMAIN r

\* C31 (as stated): get_transaction_status never raises and returns Success
\* or Failed from the receipt it read, Pending when only the transaction
\* lookup succeeded and Not Found when both lookups failed; the block number
\* and the gas used come from the receipt only.
C31_AsStated ==
    StatusEnded =>
       /\ C31_StatusFollowsLookups
       /\ ~IsSome(fr.receipt) =>
             \/ "block_number" \notin DOMAIN Get(fr.result)
             \/ Get(fr.result)["block_number"] = None

\* C31 (amended): as stated, except that a Pending result carries the block
\* number the transaction lookup reported: none, or the block of the
\* receipt of a transaction that is mined.
C31_StatusQuery ==
    StatusEnded =>
       /\ C31_StatusFollowsLookups
       /\ Get(fr.result)["status"] = "Pending" =>
             \/ Get(fr.result)["block_number"] = None
             \/ /\ HasReceipt(Get(fr.hash))
                /\ Get(fr.result)["block_number"]
                      = Some(chain.receipts[Get(fr.hash)].blockNumber)

\* a mined transaction whose receipt lookup failed is reported Pending, with
\* its block number
C31_Witness ==
    /\ StatusEnded
    /\ Get(fr.result)["status"] = "Pending"
    /\ IsSome(Get(fr.result)["block_number"])

\* how often the operation in progress has made the call `name`
Calls(name) == Cardinality({k \in 1..Len(fr.log) : fr.log[k] = name})

\* C32: in every run of send_bnb and of send_token, whatever the collaborator
\* answers, the transaction is signed at most once and sendRawTransaction is
\* called at most once: no step is tried again within the call.
C32_AtMostOneBroadcast ==
    IsSend =>
       /\ Calls("sign_transaction") <= 1
       /\ Calls("sendRawTransaction") <= 1
       /\ Calls("sendRawTransaction") <= Calls("sign_transaction")
       /\ (IsSome(fr.rpcError) => fr.pc = "done" /\ IsSome(fr.error))

\* a submission the collaborator refused: the call has ended and the one
\* attempt is all there was
C32_Witness ==
    /\ IsSend /\ fr.pc = "done"
    /\ IsSome(fr.rpcError) /\ IsSome(fr.error)
    /\ Calls("sendRawTransaction") = 1 /\ Calls("sign_transaction") = 1


\* a send_bnb that has read the balance of the sender
GateReached == fr.op = "send_bnb" /\ IsSome(fr.balRead)

\* the transaction of the send_bnb in progress costs more than the sender has
Underfunded ==
    /\ fr.op = "send_bnb" /\ IsSome(fr.tx)
    /\ chain.balance[fr.from] < Get(fr.tx).value + GasCost

\* C33: send_bnb goes on to build (and from there to sign and broadcast)
\* exactly when the balance the gate read is at least the amount; the fee is
\* not part of the gate, and a transfer whose amount the balance covers but
\* whose amount plus fee it does not is signed, submitted and refused at the
\* broadcast: the call ends there with an error, no hash, and the pool as
\* it was.
C33_AmountOnlyGate ==
    /\ [](GateReached =>
            ((fr.pc = "build" \/ InLog("create_transaction"))
                <=> Get(fr.balRead) >= fr.amount))
    /\ [](Underfunded /\ fr.pc \in {"sign", "broadcast"} => Get(fr.balRead) >= fr.amount)
    /\ [][(fr.pc = "broadcast" /\ Underfunded /\ fr'.pc # "broadcast") =>
             /\ fr'.pc = "done" /\ IsSome(fr'.error) /\ fr'.hash = None
             /\ IsSome(fr'.rpcError)
             /\ Calls("sendRawTransaction")' = 1
             /\ chain' = chain]_vars

\* a transfer of the whole balance passed the gate, was signed and submitted,
\* and ended with the error of the broadcast
C33_Witness ==
    /\ GateReached /\ fr.pc = "done"
    /\ fr.amount > 0 /\ Get(fr.balRead) = fr.amount
    /\ chain.balance[fr.from] = fr.amount
    /\ InLog("sign_transaction") /\ InLog("sendRawTransaction")
    /\ Raised("Insufficient funds")
    /\ fr.hash = None /\ chain.mempool = {}


\* a send_bnb or send_token that has ended
SendEnded == IsSend /\ fr.pc = "done"

\* C34: a send_bnb or send_token whose watcher read a receipt returns, also
\* when the status bit of the receipt is not 1: the result then has status
\* Failed and the hash, the gas used and the block number of the receipt.
\* The call raises only when a step before the broadcast failed (nothing was
\* submitted), when the submission failed, or when the wait ran out.
C34_RevertIsResult ==
    SendEnded =>
       /\ IsSome(fr.receipt) =>
             /\ fr.error = None /\ IsSome(fr.result)
             /\ LET r == Get(fr.result)
                    rc == Get(fr.receipt)
                IN /\ r["status"] = (IF rc.status = 1 THEN "Success" ELSE "Failed")
                   /\ r["tx_hash"] = Get(fr.hash)
                   /\ r["gas_used"] = rc.gasUsed
                   /\ r["block_number"] = rc.blockNumber
       /\ IsSome(fr.error) =>
             \/ ~InLog("sendRawTransaction")
             \/ IsSome(fr.rpcError) /\ ~InLog("wait_for_confirmation")
             \/ /\ fr.error = Some(ConfirmationTimeout(SendTimeout))
                /\ fr.receipt = None /\ IsSome(fr.hash)

\* a token transfer that reverted: send_token returned Failed
C34_Witness ==
    /\ SendEnded /\ fr.op = "send_token"
    /\ IsSome(fr.receipt) /\ Get(fr.receipt).status = 0
    /\ IsSome(fr.result) /\ Get(fr.result)["status"] = "Failed"
    /\ fr.error = None

\* a watch that has started: a direct call of wait_for_confirmation, or the
\* wait of a send
Watching == InLog("wait_for_confirmation")

\* C35: a watch raises nothing but the confirmation timeout, and not before
\* the timeout has passed; a receipt lookup that raises is treated as a
\* lookup that found nothing (the watch sleeps and goes on), so a watch
\* returns only with a receipt it read.
C35_OnlyTimeout ==
    /\ (Watching /\ fr.pc = "done" /\ IsSome(fr.error)) =>
          /\ fr.error = Some(ConfirmationTimeout(fr.timeout))
          /\ fr.elapsed >= fr.timeout
          /\ fr.receipt = None
    /\ (Watching /\ fr.pc = "done" /\ IsSome(fr.result)) => IsSome(fr.receipt)
    /\ (fr.pc = "watch" /\ LoopCond(fr.elapsed, fr.timeout)) =>
          \A lat \in 0..MaxLatency :
             LET down == WaitPollStep(fr, lat, FALSE)
             IN /\ down.pc = "watch" /\ down.error = None /\ down.result = None
                /\ down.elapsed = fr.elapsed + lat + POLL_INTERVAL
                /\ ~HasReceipt(Get(fr.hash)) => down = WaitPollStep(fr, lat, TRUE)

\* a watch of a mined transaction that never read the receipt ended with the
\* timeout
C35_Witness ==
    /\ Watching /\ fr.pc = "done"
    /\ fr.error = Some(ConfirmationTimeout(fr.timeout))
    /\ fr.timeout > 0 /\ fr.polled
    /\ HasReceipt(Get(fr.hash))


\* C36: in a send_token the decimals the balance was formatted with for the
\* gate are the decimals the raw amount of the built transaction is scaled
\* with.
C36_OneDecimalsPerSend ==
    (fr.op = "send_token" /\ IsSome(fr.decimals) /\ IsSome(fr.tx)) =>
        Get(fr.tx).data[3].e = Get(fr.decimals)


\* a send without the wait whose submission the node took
SentWithoutWait == IsSend /\ ~fr.wait /\ IsSome(fr.hash)

\* C37: a send_bnb or send_token called with wait_for_confirmation false has
\* returned as soon as the node took the transaction: the result has the
\* hash, the sender, the recipient, the amount and the explorer URL, it has
\* no status, gas used or block number, and the call has looked up no
\* receipt.
C37_FireAndForget ==
    SentWithoutWait =>
       /\ fr.pc = "done" /\ fr.error = None /\ IsSome(fr.result)
       /\ LET r == Get(fr.result)
              amount == IF fr.op = "send_bnb" THEN "amount_bnb" ELSE "amount"
          IN /\ {"tx_hash", "from_address", "to_address", amount, "explorer_url"}
                   \subseteq DOMAIN r
             /\ DOMAIN r \cap {"status", "gas_used", "block_number",
                               "confirmation_time"} = {}
             /\ r["tx_hash"] = Get(fr.hash)
             /\ r["from_address"] = fr.from /\ r["to_address"] = fr.to
             /\ r[amount] = fr.amount
             /\ r["explorer_url"] = ExplorerUrl(Get(fr.hash))
       /\ ~InLog("wait_for_confirmation") /\ ~InLog("getTransactionReceipt")
       /\ fr.receipt = None /\ ~fr.polled
       /\ fr.log[Len(fr.log)] = "sendRawTransaction"

\* a transfer sent without the wait has returned while its transaction is
\* still pending
C37_Witness ==
    /\ SentWithoutWait /\ fr.pc = "done" /\ IsSome(fr.result)
    /\ fr.amount > 0
    /\ Get(fr.hash) \in chain.mempool /\ ~HasReceipt(Get(fr.hash))


\* a get_all_balances that has ended
BalancesEnded == fr.op = "get_all_balances" /\ fr.pc = "done"

\* the lookups of the call that were made for the key `key`
LookupsOf(key) == {i \in 1..Len(fr.lookups) : fr.lookups[i].key = key}

\* the call queried the sample tokens
SamplesQueried ==
    \E i \in 1..Len(fr.lookups), j \in 1..Len(SAMPLE_TOKENS) :
       fr.lookups[i].key = SAMPLE_TOKENS[j][1]

\* what C38 says of an ended call, but for the two clauses on a token whose
\* lookup failed and on the sample tokens: no error, the BNB balance or None,
\* a lookup for every token of the list in its order (for every sample token
\* when the list is not used), and the balance of a lookup that returned
C38_Partial ==
    /\ fr.error = None /\ IsSome(fr.result)
    /\ LET r == Get(fr.result)
           given == fr.token_addresses
       IN /\ r.wallet_address = fr.wallet_address
          /\ (r.bnb_balance = None) <=> (fr.log[3] = "warning")
          /\ ~IsAddress(fr.wallet_address) => r.bnb_balance = None
          /\ IsSome(r.bnb_balance) =>
                Get(r.bnb_balance).balance_wei = chain.balance[fr.wallet_address]
          /\ ~SamplesQueried =>
                /\ IsSome(given) /\ Len(fr.lookups) = Len(Get(given))
                /\ \A i \in 1..Len(fr.lookups) :
                      /\ fr.lookups[i].address = Get(given)[i]
                      /\ fr.lookups[i].key = Get(given)[i]
          /\ SamplesQueried =>
                /\ Len(fr.lookups) = Len(SAMPLE_TOKENS)
                /\ \A i \in 1..Len(fr.lookups) :
                      /\ fr.lookups[i].key = SAMPLE_TOKENS[i][1]
                      /\ fr.lookups[i].address = SAMPLE_TOKENS[i][2]
          /\ \A i \in 1..Len(fr.lookups) :
                fr.lookups[i].ok =>
                   /\ fr.lookups[i].key \in DOMAIN r.token_balances
                   /\ r.token_balances[fr.lookups[i].key].token_address
                         = ToChecksumAddress(fr.lookups[i].address)
                   /\ r.token_balances[fr.lookups[i].key].balance_raw = chain.tokenBal
          /\ \A key \in DOMAIN r.token_balances : LookupsOf(key) # {}

\* C38 (as stated): get_all_balances never raises for a failed lookup;
\* bnb_balance is None when the BNB lookup failed; a token whose lookup failed
\* is left out of token_balances and every other token is queried and
\* reported; the sample tokens are queried only when no token list is given.
C38_AsStated ==
    BalancesEnded =>
       /\ C38_Partial
       /\ \A i \in 1..Len(fr.lookups) :
             ~fr.lookups[i].ok =>
                fr.lookups[i].key \notin DOMAIN Get(fr.result).token_balances
       /\ SamplesQueried => fr.token_addresses = None

\* C38 (amended): as stated, except that a token is left out when every
\* lookup made for it failed, and that the sample tokens are queried exactly
\* when no token list, or an empty one, is given.
C38_PartialFailure ==
    BalancesEnded =>
       /\ C38_Partial
       /\ \A i \in 1..Len(fr.lookups) :
             (\A j \in LookupsOf(fr.lookups[i].key) : ~fr.lookups[j].ok) =>
                fr.lookups[i].key \notin DOMAIN Get(fr.result).token_balances
       /\ SamplesQueried <=>
             (fr.token_addresses = None \/ Get(fr.token_addresses) = <<>>)

\* the BNB lookup and the lookup of the first of two listed tokens failed, the
\* second token is reported
C38_Witness ==
    /\ BalancesEnded /\ IsSome(fr.result)
    /\ IsAddress(fr.wallet_address)
    /\ Get(fr.result).bnb_balance = None
    /\ Len(fr.lookups) = 2 /\ ~SamplesQueried
    /\ IsAddress(fr.lookups[1].address) /\ ~fr.lookups[1].ok
    /\ fr.lookups[2].ok /\ fr.lookups[2].address # fr.lookups[1].address
    /\ DOMAIN Get(fr.result).token_balances = {fr.lookups[2].key}


\* C39: the page is inside send_bnb only with the confirmation pending and
\* with the arguments that were stored; when the step has been left, by a
\* result, an error or Cancel, bnb_confirm_pending is false and the stored
\* data, the private key with it, is gone; send_bnb is called at most once
\* for each time transaction data was stored.
C39_ConfirmationGate ==
    /\ page.running # None =>
          /\ page.session_state.bnb_confirm_pending
          /\ page.running = page.session_state.bnb_tx_data
          /\ IsSome(page.running)
    /\ page.shown \in {"receipt", "error"} => page.session_state = NoSession
    /\ (page.running = None /\ page.requested # None) =>
          page.session_state = NoSession
    /\ ~page.session_state.bnb_confirm_pending =>
          page.session_state.bnb_tx_data = None
    /\ page.sent <= page.stored

====
